---- MODULE Spec2Model ----
(***************************************************************************)
(* Model of the movement ledger and quantity projection of the inventory   *)
(* management API: MovementService.createMovement and adjustInventory      *)
(* (src/business/services/SupplierService.ts), the adjust endpoint of      *)
(* MovementController, and the Prisma interactive transaction they run.    *)
(*                                                                         *)
(* Request handlers run on one event loop: the code between two awaits is  *)
(* one atomic step, and each await is a point where another handler runs.  *)
(* The database is PostgreSQL at its default isolation (read committed):   *)
(* writes of an open transaction are invisible to others until commit, and *)
(* an UPDATE of a row waits while another open transaction has updated it. *)
(***************************************************************************)
EXTENDS Integers, Sequences, FiniteSets, TLC

\* ------------------------------------------------------------------------
\* Bounds of the model
\* ------------------------------------------------------------------------

\* Total number of service calls made in one behaviour.
MaxCalls == 2

\* Request handlers that may be in flight at the same time.
Procs == {"p1", "p2"}

\* Item ids a request may name: "i1" is stored, "i2" matches no item.
ItemIds == {"i1", "i2"}

\* Quantities an item may have been created with.
InitQuantities == {0, 10}

\* Quantities a request may carry.
QuantityInputs == {0, 6}

\* Values of newQuantity a request to the adjust endpoint may carry.
NewQuantityInputs == {-1, 0, 6}

\* userId passed by the caller: a known user, or none (undefined).
NoUser == "none"
UserInputs == {"u1", NoUser}

NoItem == [quantity |-> 0, minQuantity |-> 0, found |-> FALSE]
NoMovement == [call |-> 0, itemId |-> "-", type |-> "-", quantity |-> 0, userId |-> NoUser]
NoUpdate == [call |-> 0, itemId |-> "-", quantity |-> 0, status |-> "-"]

\* The body of a request on an item or a category; "-" is a field the body does
\* not carry. NoBody carries only descriptive attributes.
NoBody ==
    [hasQuantity |-> FALSE, quantity |-> 0, sku |-> "-", categoryId |-> "-", status |-> "-",
     name |-> "-"]
BodyQuantityInputs == {-1, 6}

\* The bodies of PUT /items/:id as far as the quantity goes: without a quantity, or
\* with one.
UpdateBodies ==
    {NoBody} \cup {[NoBody EXCEPT !.hasQuantity = TRUE, !.quantity = q] : q \in BodyQuantityInputs}

MovementTypes == {"IN", "OUT", "ADJUSTMENT", "TRANSFER", "RETURN"}

\* SKUs, category ids and category names a request may carry. The stored items
\* have the SKUs of SkuOf and belong to category "c1", which is named "Tools";
\* "c2" matches no category at the start.
Skus == {"s1", "s2"}
SkuOf == [i \in ItemIds |-> IF i = "i1" THEN "s1" ELSE "s2"]
CategoryIds == {"c1", "c2"}
CategoryNames == {"Tools", "Parts"}

\* ------------------------------------------------------------------------
\* State
\* ------------------------------------------------------------------------

VARIABLES
    items,            \* committed item rows: id -> [quantity, status, minQuantity]
    initialQuantity,  \* id -> the quantity the item was created with
    movements,        \* committed movement rows, in commit order
    itemUpdates,      \* calls whose item update is committed
    proc,             \* per handler in flight: position, request, locals, open transaction
    results,          \* call id -> the result returned to the caller
    nextCall,         \* id of the next service call
    requests,         \* call id -> the request of the call, where a specification logs it
    categories,       \* committed category rows: id -> name
    server            \* the Node process: signal, HTTP server, database client, timer, exit

vars ==
    <<items, initialQuantity, movements, itemUpdates, proc, results, nextCall, requests,
      categories, server>>

\* The process after startServer: listening, connected, no signal received.
Running ==
    [signalled |-> FALSE, http |-> "listening", db |-> "connected", timer |-> "off",
     exited |-> FALSE, code |-> 0]

\* The statistics a handler holds before getMovementStats has computed them.
NoStats ==
    [totalIn |-> 0, totalOut |-> 0, totalAdjustments |-> 0, totalTransfers |-> 0,
     totalReturns |-> 0]

\* The page a handler holds before findAll has fetched it.
NoListing ==
    [page |-> 0, limit |-> 0, skip |-> 0, take |-> 0, data |-> <<>>,
     pagination |-> [page |-> 0, limit |-> 0, total |-> 0, totalPages |-> 0,
                     hasNext |-> FALSE, hasPrev |-> FALSE]]

IdleProc ==
    [pc |-> "idle", op |-> "-", call |-> 0,
     data |-> [itemId |-> "-", type |-> "-", quantity |-> 0],
     userId |-> NoUser, item |-> NoItem,
     txMovement |-> NoMovement, txUpdate |-> NoUpdate, body |-> NoBody, stats |-> NoStats,
     listing |-> NoListing]

NoRequest ==
    [op |-> "-", itemId |-> "-", type |-> "-", quantity |-> 0, userId |-> NoUser, retryOf |-> 0]

NoResult == [kind |-> "-", available |-> 0, failedAt |-> "-"]

Result(kind) == [kind |-> kind, available |-> 0, failedAt |-> "-"]

Failures ==
    {"notFound", "invalidQuantity", "insufficient", "failed", "failedAdjust", "invalidNewQuantity",
     "validationFailed", "skuExists", "categoryNotFound", "nameExists", "hasItems"}

\* ------------------------------------------------------------------------
\* Pure functions of createMovement
\* ------------------------------------------------------------------------

\* Mutant of NewQuantity: ADJUSTMENT applied as a delta.
NewQuantity_AdjustmentAsDelta(current, type, quantity) ==
    CASE type \in {"IN", "RETURN", "ADJUSTMENT"} -> current + quantity
      [] type \in {"OUT", "TRANSFER"} -> current - quantity
      [] OTHER -> current

\* Mutant of NewQuantity: a RETURN is subtracted like an issue.
NewQuantity_ReturnSubtracts(current, type, quantity) ==
    CASE type = "IN" -> current + quantity
      [] type \in {"OUT", "TRANSFER", "RETURN"} -> current - quantity
      [] type = "ADJUSTMENT" -> quantity
      [] OTHER -> current

\* The switch over data.type that computes newQuantity.
NewQuantity(current, type, quantity) ==
    CASE type \in {"IN", "RETURN"} -> current + quantity
      [] type \in {"OUT", "TRANSFER"} -> current - quantity
      [] type = "ADJUSTMENT" -> quantity
      [] OTHER -> current

\* Mutant of NewStatus: a quantity at or below minQuantity counts as out of stock.
NewStatus_AtMinimum(newQuantity, minQuantity) ==
    IF newQuantity <= minQuantity THEN "OUT_OF_STOCK" ELSE "ACTIVE"

\* The status written together with the new quantity.
NewStatus(newQuantity, minQuantity) ==
    IF newQuantity = 0 THEN "OUT_OF_STOCK"
    ELSE IF newQuantity <= minQuantity THEN "ACTIVE" ELSE "ACTIVE"

\* Mutant of QuantityRejected: only a negative quantity is rejected.
QuantityRejected_NegativeOnly(type, quantity) == quantity < 0

\* The validation of data.quantity.
QuantityRejected(type, quantity) == quantity <= 0

\* The check that guards against negative inventory.
InsufficientInventory(type, itemQuantity, quantity) ==
    type = "OUT" /\ itemQuantity < quantity

\* Movement.userId is an optional attribute of a movement: a movement created
\* without userId is stored, and its included user relation is null.
UserIdIsOptional == TRUE

\* mapMovementToResponse dereferences movement.user: it throws a TypeError
\* when the relation is null.
MapMovementThrows(movement) == movement.userId = NoUser

\* The guard of the adjust endpoint on req.body.newQuantity.
ControllerRejectsNewQuantity(newQuantity) == newQuantity < 0

\* Mutant of ItemLookup: the where clause is ignored (findFirst), so a lookup of an
\* unknown id returns some stored item.
ItemLookup_AnyItem(itemId) ==
    LET i == IF itemId \in DOMAIN items \/ DOMAIN items = {} THEN itemId
             ELSE CHOOSE j \in DOMAIN items : TRUE
    IN IF i \in DOMAIN items
       THEN [quantity |-> items[i].quantity, minQuantity |-> items[i].minQuantity, found |-> TRUE]
       ELSE NoItem

\* db.items.findById: the stored item, or null.
ItemLookup(itemId) ==
    IF itemId \in DOMAIN items
    THEN [quantity |-> items[itemId].quantity, minQuantity |-> items[itemId].minQuantity,
          found |-> TRUE]
    ELSE NoItem

\* Mutant of AdjustmentData: the adjustment is recorded as a stock receipt.
AdjustmentData_AsReceipt(itemId, newQuantity) ==
    [itemId |-> itemId, type |-> "IN", quantity |-> newQuantity]

\* The movement request adjustInventory builds before it delegates to createMovement.
AdjustmentData(itemId, newQuantity) ==
    [itemId |-> itemId, type |-> "ADJUSTMENT", quantity |-> newQuantity]

\* Mutant of CaughtError: the error escapes to the caller.
CaughtError_Rethrown(op, where) ==
    [kind |-> "thrown", available |-> 0, failedAt |-> where]

\* The catch blocks of createMovement and adjustInventory: an error thrown at
\* `where` becomes the generic failure result of the operation.
CaughtError(op, where) ==
    [kind |-> IF op = "adjustInventory" /\ where = "adjustFind" THEN "failedAdjust" ELSE "failed",
     available |-> 0, failedAt |-> where]

\* ------------------------------------------------------------------------
\* The transaction
\* ------------------------------------------------------------------------

\* The handler whose open transaction has updated the row of item i, if any.
RowLockedByOther(p, i) ==
    \E q \in Procs \ {p} : proc[q].txUpdate # NoUpdate /\ proc[q].txUpdate.itemId = i

\* Mutant of MovementsAfterRollback: the movement insert runs outside the
\* transaction, so a failure after it leaves the inserted row in the ledger.
MovementsAfterRollback_InsertKept(p) ==
    IF proc[p].txMovement # NoMovement THEN Append(movements, proc[p].txMovement) ELSE movements

\* The ledger after the transaction of p failed: the pending insert is rolled back.
MovementsAfterRollback(p) == movements

\* The items after the transaction of p failed: the pending update is rolled back.
ItemsAfterRollback(p) == items

\* Mutant of MovementsAfterCommit: the committed movement replaces the ledger.
MovementsAfterCommit_LatestOnly(p) == <<proc[p].txMovement>>

\* The ledger after the transaction of p committed.
MovementsAfterCommit(p) == Append(movements, proc[p].txMovement)

\* The item updates after the transaction of p committed.
ItemUpdatesAfterCommit(p) == itemUpdates \cup {proc[p].txUpdate.call}

\* Mutant of ItemsAfterCommit: the update writes the quantity and leaves the status.
ItemsAfterCommit_QuantityOnly(p) ==
    LET u == proc[p].txUpdate IN
    [items EXCEPT ![u.itemId] = [@ EXCEPT !.quantity = u.quantity]]

\* Mutant of ItemsAfterCommit: the update has no where clause and writes every row.
ItemsAfterCommit_AllRows(p) ==
    LET u == proc[p].txUpdate IN
    [i \in DOMAIN items |-> [items[i] EXCEPT !.quantity = u.quantity, !.status = u.status]]

\* The items after the transaction of p committed.
ItemsAfterCommit(p) ==
    LET u == proc[p].txUpdate IN
    [items EXCEPT ![u.itemId] = [@ EXCEPT !.quantity = u.quantity, !.status = u.status]]

\* The handler p returns result r to its caller.
Return(p, r) ==
    /\ proc' = [proc EXCEPT ![p] = IdleProc]
    /\ results' = [results EXCEPT ![proc[p].call] = r]

\* ------------------------------------------------------------------------
\* Initial state
\* ------------------------------------------------------------------------

Init ==
    /\ \E q \in InitQuantities :
          /\ items = [i \in {"i1"} |-> [quantity |-> q, status |-> "ACTIVE", minQuantity |-> 5,
                                        sku |-> SkuOf[i], categoryId |-> "c1"]]
          /\ initialQuantity = [i \in {"i1"} |-> q]
    /\ movements = <<>>
    /\ itemUpdates = {}
    /\ proc = [p \in Procs |-> IdleProc]
    /\ results = [c \in 1..MaxCalls |-> NoResult]
    /\ nextCall = 1
    /\ requests = [c \in 1..MaxCalls |-> NoRequest]
    /\ categories = [c \in {"c1"} |-> "Tools"]
    /\ server = Running

\* ------------------------------------------------------------------------
\* Operations
\* ------------------------------------------------------------------------

\* A caller invokes createMovement(data, userId).
CreateMovement(p, itemId, type, quantity, userId) ==
    /\ proc[p].pc = "idle"
    /\ nextCall <= MaxCalls
    /\ proc' = [proc EXCEPT ![p] =
          [IdleProc EXCEPT !.pc = "find", !.op = "createMovement", !.call = nextCall,
                           !.data = [itemId |-> itemId, type |-> type, quantity |-> quantity],
                           !.userId = userId]]
    /\ results' = [results EXCEPT ![nextCall] = Result("pending")]
    /\ nextCall' = nextCall + 1
    /\ UNCHANGED <<items, initialQuantity, movements, itemUpdates>>

\* POST /items/:itemId/adjust: the controller's guard, then the call of
\* adjustInventory(itemId, newQuantity, reason, userId).
AdjustInventory(p, itemId, newQuantity, userId) ==
    /\ proc[p].pc = "idle"
    /\ nextCall <= MaxCalls
    /\ IF ControllerRejectsNewQuantity(newQuantity)
       THEN /\ results' = [results EXCEPT ![nextCall] = Result("invalidNewQuantity")]
            /\ UNCHANGED proc
       ELSE /\ results' = [results EXCEPT ![nextCall] = Result("pending")]
            /\ proc' = [proc EXCEPT ![p] =
                  [IdleProc EXCEPT !.pc = "adjustFind", !.op = "adjustInventory", !.call = nextCall,
                      !.data = AdjustmentData(itemId, newQuantity),
                      !.userId = userId]]
    /\ nextCall' = nextCall + 1
    /\ UNCHANGED <<items, initialQuantity, movements, itemUpdates>>

\* adjustInventory: the item lookup, then the delegation to createMovement.
AdjustFindItem(p) ==
    /\ proc[p].pc = "adjustFind"
    /\ IF ~ItemLookup(proc[p].data.itemId).found
       THEN Return(p, Result("notFound"))
       ELSE /\ proc' = [proc EXCEPT ![p].pc = "find"]
            /\ UNCHANGED results
    /\ UNCHANGED <<items, initialQuantity, movements, itemUpdates, nextCall>>

\* Mutant of FindItem: the quantity is validated before the result of the lookup is
\* looked at.
FindItem_ValidationFirst(p) ==
    /\ proc[p].pc = "find"
    /\ LET d == proc[p].data
           item == ItemLookup(d.itemId)
       IN
       IF QuantityRejected(d.type, d.quantity)
       THEN Return(p, Result("invalidQuantity"))
       ELSE IF ~item.found
       THEN Return(p, Result("notFound"))
       ELSE IF InsufficientInventory(d.type, item.quantity, d.quantity)
       THEN Return(p, [Result("insufficient") EXCEPT !.available = item.quantity])
       ELSE /\ proc' = [proc EXCEPT ![p].pc = "txCreate", ![p].item = item]
            /\ UNCHANGED results
    /\ UNCHANGED <<items, initialQuantity, movements, itemUpdates, nextCall>>

\* createMovement: the item lookup and the checks that follow it without an await.
FindItem(p) ==
    /\ proc[p].pc = "find"
    /\ LET d == proc[p].data
           item == ItemLookup(d.itemId)
       IN
       IF ~item.found
       THEN Return(p, Result("notFound"))
       ELSE IF QuantityRejected(d.type, d.quantity)
       THEN Return(p, Result("invalidQuantity"))
       ELSE IF InsufficientInventory(d.type, item.quantity, d.quantity)
       THEN Return(p, [Result("insufficient") EXCEPT !.available = item.quantity])
       ELSE /\ proc' = [proc EXCEPT ![p].pc = "txCreate", ![p].item = item]
            /\ UNCHANGED results
    /\ UNCHANGED <<items, initialQuantity, movements, itemUpdates, nextCall>>

\* Inside the transaction: prisma.movement.create. The row is pending until commit;
\* the insert fails when the item is gone (foreign key on itemId) or when a
\* required userId is missing.
TxCreateMovement(p) ==
    /\ proc[p].pc = "txCreate"
    /\ LET d == proc[p].data IN
       IF d.itemId \in DOMAIN items /\ (proc[p].userId # NoUser \/ UserIdIsOptional)
       THEN /\ proc' = [proc EXCEPT ![p].pc = "txUpdate",
                  ![p].txMovement = [call |-> proc[p].call, itemId |-> d.itemId, type |-> d.type,
                                     quantity |-> d.quantity, userId |-> proc[p].userId]]
            /\ UNCHANGED <<items, movements, results>>
       ELSE /\ Return(p, CaughtError(proc[p].op, "txCreate"))
            /\ movements' = MovementsAfterRollback(p)
            /\ items' = ItemsAfterRollback(p)
    /\ UNCHANGED <<initialQuantity, itemUpdates, nextCall>>

\* Inside the transaction: the switch over data.type and prisma.item.update, computed
\* from the item read before the transaction. The update waits for the row lock.
TxUpdateItem(p) ==
    /\ proc[p].pc = "txUpdate"
    /\ ~RowLockedByOther(p, proc[p].data.itemId)
    /\ LET d == proc[p].data
           newQuantity == NewQuantity(proc[p].item.quantity, d.type, d.quantity)
       IN
       IF d.itemId \in DOMAIN items
       THEN /\ proc' = [proc EXCEPT ![p].pc = "txCommit",
                  ![p].txUpdate = [call |-> proc[p].call, itemId |-> d.itemId,
                                   quantity |-> newQuantity,
                                   status |-> NewStatus(newQuantity, proc[p].item.minQuantity)]]
            /\ UNCHANGED <<items, movements, results>>
       ELSE /\ Return(p, CaughtError(proc[p].op, "txUpdate"))
            /\ movements' = MovementsAfterRollback(p)
            /\ items' = ItemsAfterRollback(p)
    /\ UNCHANGED <<initialQuantity, itemUpdates, nextCall>>

\* The transaction commits both writes; createMovement then maps the movement to
\* the response and returns.
TxCommit(p) ==
    /\ proc[p].pc = "txCommit"
    /\ movements' = MovementsAfterCommit(p)
    /\ items' = ItemsAfterCommit(p)
    /\ itemUpdates' = ItemUpdatesAfterCommit(p)
    /\ IF MapMovementThrows(proc[p].txMovement)
       THEN Return(p, CaughtError(proc[p].op, "map"))
       ELSE Return(p, Result("success"))
    /\ UNCHANGED <<initialQuantity, nextCall>>

\* A storage call throws (connection loss, timeout): the lookup fails, or the open
\* transaction is rolled back; the catch block returns the generic failure.
StorageFailure(p) ==
    /\ proc[p].pc \in {"adjustFind", "find", "txCreate", "txUpdate", "txCommit",
                       "updFind", "updSku", "updCategory", "updWrite", "delFind", "delWrite",
                       "crtSku", "crtCategory", "crtWrite", "catFind", "catCount", "catDelete",
                       "ccName", "ccWrite", "ucFind", "ucName", "ucWrite", "statsRead", "listQuery"}
    /\ Return(p, CaughtError(proc[p].op, proc[p].pc))
    /\ movements' = MovementsAfterRollback(p)
    /\ items' = ItemsAfterRollback(p)
    /\ UNCHANGED <<initialQuantity, itemUpdates, nextCall>>

\* The handlers that are free to take a request. Every request action requires a
\* free handler and nextCall <= MaxCalls; the next-state relations test that before
\* they enumerate the request's inputs.
Idle == {p \in Procs : proc[p].pc = "idle"}

Next ==
    \/ /\ nextCall <= MaxCalls
       /\ \E p \in Idle, i \in ItemIds, t \in MovementTypes, q \in QuantityInputs, u \in UserInputs :
             CreateMovement(p, i, t, q, u) /\ UNCHANGED <<requests, categories, server>>
    \/ /\ nextCall <= MaxCalls
       /\ \E p \in Idle, i \in ItemIds, q \in NewQuantityInputs, u \in UserInputs :
             AdjustInventory(p, i, q, u) /\ UNCHANGED <<requests, categories, server>>
    \/ \E p \in Procs : AdjustFindItem(p) /\ UNCHANGED <<requests, categories, server>>
    \/ \E p \in Procs : FindItem(p) /\ UNCHANGED <<requests, categories, server>>
    \/ \E p \in Procs : TxCreateMovement(p) /\ UNCHANGED <<requests, categories, server>>
    \/ \E p \in Procs : TxUpdateItem(p) /\ UNCHANGED <<requests, categories, server>>
    \/ \E p \in Procs : TxCommit(p) /\ UNCHANGED <<requests, categories, server>>
    \/ \E p \in Procs : StorageFailure(p) /\ UNCHANGED <<requests, categories, server>>

Spec == Init /\ [][Next]_vars

\* ------------------------------------------------------------------------
\* The movement operations with the request of every call logged, and with
\* callers that repeat a createMovement call that returned the generic failure
\* ------------------------------------------------------------------------

LoggedRequest(op, itemId, type, quantity, userId, retryOf) ==
    [op |-> op, itemId |-> itemId, type |-> type, quantity |-> quantity,
     userId |-> userId, retryOf |-> retryOf]

\* The caller of call c, which returned 'Failed to create movement', repeats it.
RetryCreateMovement(p, c) ==
    /\ c < nextCall
    /\ requests[c].op = "createMovement"
    /\ results[c].kind = "failed"
    /\ UNCHANGED <<categories, server>>
    /\ CreateMovement(p, requests[c].itemId, requests[c].type, requests[c].quantity,
                      requests[c].userId)
    /\ requests' = [requests EXCEPT ![nextCall] =
          [requests[c] EXCEPT !.retryOf = IF requests[c].retryOf = 0 THEN c
                                         ELSE requests[c].retryOf]]

\* One caller issues the logged calls one after the other, each against the
\* stored item.
LogProcs == {"p1"}

LogItemIds == {"i1"}

LogNext ==
    \/ /\ nextCall <= MaxCalls
       /\ \E p \in Idle \cap LogProcs, i \in LogItemIds, t \in MovementTypes, q \in QuantityInputs,
             u \in UserInputs :
             /\ CreateMovement(p, i, t, q, u)
             /\ UNCHANGED <<categories, server>>
             /\ requests' = [requests EXCEPT ![nextCall] =
                   LoggedRequest("createMovement", i, t, q, u, 0)]
    \/ /\ nextCall <= MaxCalls
       /\ \E p \in Idle \cap LogProcs, i \in LogItemIds, q \in NewQuantityInputs, u \in UserInputs :
             /\ AdjustInventory(p, i, q, u)
             /\ UNCHANGED <<categories, server>>
             /\ requests' = [requests EXCEPT ![nextCall] =
                   LoggedRequest("adjustInventory", i, "ADJUSTMENT", q, u, 0)]
    \/ /\ nextCall <= MaxCalls
       /\ \E p \in Idle \cap LogProcs, c \in 1..MaxCalls : RetryCreateMovement(p, c)
    \/ \E p \in LogProcs : AdjustFindItem(p) /\ UNCHANGED <<requests, categories, server>>
    \/ \E p \in LogProcs : FindItem(p) /\ UNCHANGED <<requests, categories, server>>
    \/ \E p \in LogProcs : TxCreateMovement(p) /\ UNCHANGED <<requests, categories, server>>
    \/ \E p \in LogProcs : TxUpdateItem(p) /\ UNCHANGED <<requests, categories, server>>
    \/ \E p \in LogProcs : TxCommit(p) /\ UNCHANGED <<requests, categories, server>>
    \/ \E p \in LogProcs : StorageFailure(p) /\ UNCHANGED <<requests, categories, server>>

SpecLog == Init /\ [][LogNext]_vars

\* ------------------------------------------------------------------------
\* The item operations next to the movement operations: ItemService.updateItem
\* (PUT /items/:id) and ItemService.deleteItem (DELETE /items/:id)
\* ------------------------------------------------------------------------

\* updateItemSchema on the quantity of the body: Joi.number().optional().min(0).
BodyRejected(body) == body.hasQuantity /\ body.quantity < 0

\* ItemRepository.update: prisma.item.update({where: {id}, data: {...data}}).
ItemsAfterUpdate(id, body) ==
    [items EXCEPT ![id].quantity = IF body.hasQuantity THEN body.quantity ELSE @,
                  ![id].sku = IF body.sku # "-" THEN body.sku ELSE @,
                  ![id].categoryId = IF body.categoryId # "-" THEN body.categoryId ELSE @,
                  ![id].status = IF body.status # "-" THEN body.status ELSE @]

\* ItemRepository.findBySku: prisma.item.findUnique({where: {sku}}), as a found flag.
FindBySku(sku) == \E i \in DOMAIN items : items[i].sku = sku

\* The unique index on Item.sku that findUnique({where: {sku}}) relies on: a write
\* that gives item id the SKU of another item is refused by the database.
SkuTakenByOther(id, sku) == \E i \in DOMAIN items \ {id} : items[i].sku = sku

\* CategoryRepository.findById, as a found flag.
CategoryExists(id) == id \in DOMAIN categories

\* ItemRepository.delete: prisma.item.delete({where: {id}}).
ItemsAfterDelete(id) == [i \in DOMAIN items \ {id} |-> items[i]]

\* Mutant of ItemReferenced: the database lets an item go that movements reference.
ItemReferenced_Never(id) == FALSE

\* Movement.itemId references the item without owning it: the database refuses to
\* delete an item that committed movements reference.
ItemReferenced(id) == \E k \in 1..Len(movements) : movements[k].itemId = id

\* An open transaction of another handler has inserted a movement that references
\* item i: the delete of the item waits for that transaction.
ReferencedByOpenInsert(p, i) ==
    \E q \in Procs \ {p} : proc[q].txMovement # NoMovement /\ proc[q].txMovement.itemId = i

\* PUT /items/:id: validateUpdateItem, then the call of updateItem(id, data).
UpdateItem(p, id, body) ==
    /\ proc[p].pc = "idle"
    /\ nextCall <= MaxCalls
    /\ IF BodyRejected(body)
       THEN /\ results' = [results EXCEPT ![nextCall] = Result("validationFailed")]
            /\ UNCHANGED proc
       ELSE /\ results' = [results EXCEPT ![nextCall] = Result("pending")]
            /\ proc' = [proc EXCEPT ![p] =
                  [IdleProc EXCEPT !.pc = "updFind", !.op = "updateItem", !.call = nextCall,
                                   !.data = [itemId |-> id, type |-> "-", quantity |-> 0],
                                   !.body = body]]
    /\ nextCall' = nextCall + 1
    /\ UNCHANGED <<items, initialQuantity, movements, itemUpdates>>

\* updateItem: `data.sku && data.sku !== existingItem.sku`.
SkuChanges(body, existingSku) == body.sku # "-" /\ body.sku # existingSku

\* updateItem: the step after the item lookup and after the SKU check. The checks
\* of barcode and supplierId are skipped: no body carries them.
AfterSkuCheck(body) == IF body.categoryId # "-" THEN "updCategory" ELSE "updWrite"

\* updateItem: the item lookup, and the choice of the check that follows it.
UpdateFindItem(p) ==
    /\ proc[p].pc = "updFind"
    /\ IF ~ItemLookup(proc[p].data.itemId).found
       THEN Return(p, Result("notFound"))
       ELSE /\ proc' = [proc EXCEPT ![p].pc =
                  IF SkuChanges(proc[p].body, items[proc[p].data.itemId].sku)
                  THEN "updSku" ELSE AfterSkuCheck(proc[p].body)]
            /\ UNCHANGED results
    /\ UNCHANGED <<items, initialQuantity, movements, itemUpdates, nextCall>>

\* updateItem: db.items.findBySku(data.sku) for a changed SKU.
UpdateFindSku(p) ==
    /\ proc[p].pc = "updSku"
    /\ IF FindBySku(proc[p].body.sku)
       THEN Return(p, Result("skuExists"))
       ELSE /\ proc' = [proc EXCEPT ![p].pc = AfterSkuCheck(proc[p].body)]
            /\ UNCHANGED results
    /\ UNCHANGED <<items, initialQuantity, movements, itemUpdates, nextCall>>

\* updateItem: db.categories.findById(data.categoryId) for a body with a category.
UpdateFindCategory(p) ==
    /\ proc[p].pc = "updCategory"
    /\ IF ~CategoryExists(proc[p].body.categoryId)
       THEN Return(p, Result("categoryNotFound"))
       ELSE /\ proc' = [proc EXCEPT ![p].pc = "updWrite"]
            /\ UNCHANGED results
    /\ UNCHANGED <<items, initialQuantity, movements, itemUpdates, nextCall>>

\* updateItem: db.items.update(id, data), which throws when the item is gone, when
\* the SKU is taken by now, or when the category is gone by now; the catch block
\* returns 'Failed to update item'.
UpdateWrite(p) ==
    /\ proc[p].pc = "updWrite"
    /\ ~RowLockedByOther(p, proc[p].data.itemId)
    /\ IF proc[p].data.itemId \notin DOMAIN items
       THEN /\ Return(p, CaughtError(proc[p].op, "updWrite"))
            /\ UNCHANGED items
       ELSE IF proc[p].body.sku # "-" /\ SkuTakenByOther(proc[p].data.itemId, proc[p].body.sku)
       THEN /\ Return(p, CaughtError(proc[p].op, "uniqueSku"))
            /\ UNCHANGED items
       ELSE IF proc[p].body.categoryId # "-" /\ ~CategoryExists(proc[p].body.categoryId)
       THEN /\ Return(p, CaughtError(proc[p].op, "foreignKey"))
            /\ UNCHANGED items
       ELSE /\ items' = ItemsAfterUpdate(proc[p].data.itemId, proc[p].body)
            /\ Return(p, Result("success"))
    /\ UNCHANGED <<initialQuantity, movements, itemUpdates, nextCall>>

\* DELETE /items/:id: the call of deleteItem(id).
DeleteItem(p, id) ==
    /\ proc[p].pc = "idle"
    /\ nextCall <= MaxCalls
    /\ results' = [results EXCEPT ![nextCall] = Result("pending")]
    /\ proc' = [proc EXCEPT ![p] =
          [IdleProc EXCEPT !.pc = "delFind", !.op = "deleteItem", !.call = nextCall,
                           !.data = [itemId |-> id, type |-> "-", quantity |-> 0]]]
    /\ nextCall' = nextCall + 1
    /\ UNCHANGED <<items, initialQuantity, movements, itemUpdates>>

\* deleteItem: the item lookup.
DeleteFindItem(p) ==
    /\ proc[p].pc = "delFind"
    /\ IF ~ItemLookup(proc[p].data.itemId).found
       THEN Return(p, Result("notFound"))
       ELSE /\ proc' = [proc EXCEPT ![p].pc = "delWrite"]
            /\ UNCHANGED results
    /\ UNCHANGED <<items, initialQuantity, movements, itemUpdates, nextCall>>

\* deleteItem: db.items.delete(id), which throws when the item is gone or when
\* movements reference it; the catch block returns 'Failed to delete item'.
DeleteWrite(p) ==
    /\ proc[p].pc = "delWrite"
    /\ ~RowLockedByOther(p, proc[p].data.itemId)
    /\ ~ReferencedByOpenInsert(p, proc[p].data.itemId)
    /\ IF proc[p].data.itemId \notin DOMAIN items
       THEN /\ Return(p, CaughtError(proc[p].op, "delWrite"))
            /\ UNCHANGED items
       ELSE IF ItemReferenced(proc[p].data.itemId)
       THEN /\ Return(p, CaughtError(proc[p].op, "foreignKey"))
            /\ UNCHANGED items
       ELSE /\ items' = ItemsAfterDelete(proc[p].data.itemId)
            /\ Return(p, Result("success"))
    /\ UNCHANGED <<initialQuantity, movements, itemUpdates, nextCall>>

\* The bodies of PUT /items/:id that retire an item: status INACTIVE or
\* DISCONTINUED, alone or together with the quantity 6.
StatusBodies ==
    {[NoBody EXCEPT !.status = s, !.hasQuantity = h, !.quantity = IF h THEN 6 ELSE 0] :
        s \in {"INACTIVE", "DISCONTINUED"}, h \in BOOLEAN}

\* Movements the callers of this specification record: receipts and issues of 6 on
\* the stored item, by a known user.
ItemOpsTypes == {"IN", "OUT"}
ItemOpsQuantities == {6}

ItemsNext ==
    \/ /\ nextCall <= MaxCalls
       /\ \E p \in Idle, t \in ItemOpsTypes, q \in ItemOpsQuantities :
             CreateMovement(p, "i1", t, q, "u1") /\ UNCHANGED <<requests, categories, server>>
    \/ /\ nextCall <= MaxCalls
       /\ \E p \in Idle, q \in ItemOpsQuantities :
             AdjustInventory(p, "i1", q, "u1") /\ UNCHANGED <<requests, categories, server>>
    \/ /\ nextCall <= MaxCalls
       /\ \E p \in Idle, i \in ItemIds, b \in UpdateBodies : UpdateItem(p, i, b) /\ UNCHANGED <<requests, categories, server>>
    \/ /\ nextCall <= MaxCalls
       /\ \E p \in Idle, i \in ItemIds : DeleteItem(p, i) /\ UNCHANGED <<requests, categories, server>>
    \/ \E p \in Procs : AdjustFindItem(p) /\ UNCHANGED <<requests, categories, server>>
    \/ \E p \in Procs : FindItem(p) /\ UNCHANGED <<requests, categories, server>>
    \/ \E p \in Procs : TxCreateMovement(p) /\ UNCHANGED <<requests, categories, server>>
    \/ \E p \in Procs : TxUpdateItem(p) /\ UNCHANGED <<requests, categories, server>>
    \/ \E p \in Procs : TxCommit(p) /\ UNCHANGED <<requests, categories, server>>
    \/ \E p \in Procs : UpdateFindItem(p) /\ UNCHANGED <<requests, categories, server>>
    \/ \E p \in Procs : UpdateWrite(p) /\ UNCHANGED <<requests, categories, server>>
    \/ \E p \in Procs : DeleteFindItem(p) /\ UNCHANGED <<requests, categories, server>>
    \/ \E p \in Procs : DeleteWrite(p) /\ UNCHANGED <<requests, categories, server>>
    \/ \E p \in Procs : StorageFailure(p) /\ UNCHANGED <<requests, categories, server>>

SpecItems == Init /\ [][ItemsNext]_vars

\* One caller retires the stored item with updateItem and records movements on
\* it, one call after the other; the requests are logged.
StatusNext ==
    \/ /\ nextCall <= MaxCalls
       /\ \E p \in Idle \cap LogProcs, b \in StatusBodies :
             /\ UpdateItem(p, "i1", b)
             /\ UNCHANGED <<categories, server>>
             /\ requests' = [requests EXCEPT ![nextCall] =
                   LoggedRequest("updateItem", "i1", b.status, b.quantity, NoUser, 0)]
    \/ /\ nextCall <= MaxCalls
       /\ \E p \in Idle \cap LogProcs, t \in MovementTypes, q \in ItemOpsQuantities :
             /\ CreateMovement(p, "i1", t, q, "u1")
             /\ UNCHANGED <<categories, server>>
             /\ requests' = [requests EXCEPT ![nextCall] =
                   LoggedRequest("createMovement", "i1", t, q, "u1", 0)]
    \/ \E p \in LogProcs : UpdateFindItem(p) /\ UNCHANGED <<requests, categories, server>>
    \/ \E p \in LogProcs : UpdateWrite(p) /\ UNCHANGED <<requests, categories, server>>
    \/ \E p \in LogProcs : FindItem(p) /\ UNCHANGED <<requests, categories, server>>
    \/ \E p \in LogProcs : TxCreateMovement(p) /\ UNCHANGED <<requests, categories, server>>
    \/ \E p \in LogProcs : TxUpdateItem(p) /\ UNCHANGED <<requests, categories, server>>
    \/ \E p \in LogProcs : TxCommit(p) /\ UNCHANGED <<requests, categories, server>>

SpecStatus == Init /\ [][StatusNext]_vars

\* ------------------------------------------------------------------------
\* The catalog: ItemService.createItem (POST /items), updateItem with a SKU or a
\* category in the body, and CategoryService.deleteCategory
\* ------------------------------------------------------------------------

\* The id the database gives the item that call `call` creates.
NewItemId(call) == <<"n1", "n2", "n3", "n4">>[call]

\* The row ItemRepository.create stores for a request with this SKU and category.
NewItem(sku, categoryId) ==
    [quantity |-> 0, status |-> "ACTIVE", minQuantity |-> 5, sku |-> sku,
     categoryId |-> categoryId]

\* POST /items: the call of createItem(data) with a valid body.
CreateItem(p, sku, categoryId) ==
    /\ proc[p].pc = "idle"
    /\ nextCall <= MaxCalls
    /\ results' = [results EXCEPT ![nextCall] = Result("pending")]
    /\ proc' = [proc EXCEPT ![p] =
          [IdleProc EXCEPT !.pc = "crtSku", !.op = "createItem", !.call = nextCall,
                           !.body = [NoBody EXCEPT !.sku = sku, !.categoryId = categoryId]]]
    /\ nextCall' = nextCall + 1
    /\ UNCHANGED <<items, initialQuantity, movements, itemUpdates>>

\* createItem: db.items.findBySku(data.sku). The barcode check is skipped: the body
\* carries no barcode.
CreateFindSku(p) ==
    /\ proc[p].pc = "crtSku"
    /\ IF FindBySku(proc[p].body.sku)
       THEN Return(p, Result("skuExists"))
       ELSE /\ proc' = [proc EXCEPT ![p].pc = "crtCategory"]
            /\ UNCHANGED results
    /\ UNCHANGED <<items, initialQuantity, movements, itemUpdates, nextCall>>

\* createItem: db.categories.findById(data.categoryId). The supplier check is
\* skipped: the body carries no supplier.
CreateFindCategory(p) ==
    /\ proc[p].pc = "crtCategory"
    /\ IF ~CategoryExists(proc[p].body.categoryId)
       THEN Return(p, Result("categoryNotFound"))
       ELSE /\ proc' = [proc EXCEPT ![p].pc = "crtWrite"]
            /\ UNCHANGED results
    /\ UNCHANGED <<items, initialQuantity, movements, itemUpdates, nextCall>>

\* createItem: db.items.create(data), which throws when the SKU is taken by now or
\* when the category is gone by now; the catch block returns 'Failed to create item'.
CreateWrite(p) ==
    /\ proc[p].pc = "crtWrite"
    /\ IF FindBySku(proc[p].body.sku)
       THEN /\ Return(p, CaughtError(proc[p].op, "uniqueSku"))
            /\ UNCHANGED <<items, initialQuantity>>
       ELSE IF ~CategoryExists(proc[p].body.categoryId)
       THEN /\ Return(p, CaughtError(proc[p].op, "foreignKey"))
            /\ UNCHANGED <<items, initialQuantity>>
       ELSE /\ items' = [i \in DOMAIN items \cup {NewItemId(proc[p].call)} |->
                            IF i \in DOMAIN items THEN items[i]
                            ELSE NewItem(proc[p].body.sku, proc[p].body.categoryId)]
            /\ initialQuantity' = [i \in DOMAIN items \cup {NewItemId(proc[p].call)} |->
                            IF i \in DOMAIN items THEN initialQuantity[i] ELSE 0]
            /\ Return(p, Result("success"))
    /\ UNCHANGED <<movements, itemUpdates, nextCall>>

\* CategoryRepository.delete: prisma.item.count({where: {categoryId: id}}).
ItemCount(id) == Cardinality({i \in DOMAIN items : items[i].categoryId = id})

\* Item.categoryId is a required relation to Category (the item queries include
\* `category`): the database refuses to delete a category that items reference,
\* with an error that does not carry the words 'existing items'.
CategoryReferenced(id) == \E i \in DOMAIN items : items[i].categoryId = id

\* prisma.category.delete({where: {id}}).
CategoriesAfterDelete(id) == [c \in DOMAIN categories \ {id} |-> categories[c]]

\* DELETE /categories/:id: the call of deleteCategory(id).
DeleteCategory(p, id) ==
    /\ proc[p].pc = "idle"
    /\ nextCall <= MaxCalls
    /\ results' = [results EXCEPT ![nextCall] = Result("pending")]
    /\ proc' = [proc EXCEPT ![p] =
          [IdleProc EXCEPT !.pc = "catFind", !.op = "deleteCategory", !.call = nextCall,
                           !.body = [NoBody EXCEPT !.categoryId = id]]]
    /\ nextCall' = nextCall + 1
    /\ UNCHANGED <<items, initialQuantity, movements, itemUpdates, categories>>

\* deleteCategory: db.categories.findById(id).
DeleteFindCategory(p) ==
    /\ proc[p].pc = "catFind"
    /\ IF ~CategoryExists(proc[p].body.categoryId)
       THEN Return(p, Result("categoryNotFound"))
       ELSE /\ proc' = [proc EXCEPT ![p].pc = "catCount"]
            /\ UNCHANGED results
    /\ UNCHANGED <<items, initialQuantity, movements, itemUpdates, nextCall, categories>>

\* CategoryRepository.delete: the item count; with items it throws 'Cannot delete
\* category with existing items', which the catch block of deleteCategory returns.
DeleteCountItems(p) ==
    /\ proc[p].pc = "catCount"
    /\ IF ItemCount(proc[p].body.categoryId) > 0
       THEN Return(p, Result("hasItems"))
       ELSE /\ proc' = [proc EXCEPT ![p].pc = "catDelete"]
            /\ UNCHANGED results
    /\ UNCHANGED <<items, initialQuantity, movements, itemUpdates, nextCall, categories>>

\* CategoryRepository.delete: prisma.category.delete, which throws when the category
\* is gone or when items reference it by now; neither error message includes
\* 'existing items', so the catch block returns 'Failed to delete category'.
DeleteCategoryWrite(p) ==
    /\ proc[p].pc = "catDelete"
    /\ IF ~CategoryExists(proc[p].body.categoryId)
       THEN /\ Return(p, CaughtError(proc[p].op, "catDelete"))
            /\ UNCHANGED categories
       ELSE IF CategoryReferenced(proc[p].body.categoryId)
       THEN /\ Return(p, CaughtError(proc[p].op, "foreignKey"))
            /\ UNCHANGED categories
       ELSE /\ categories' = CategoriesAfterDelete(proc[p].body.categoryId)
            /\ Return(p, Result("success"))
    /\ UNCHANGED <<items, initialQuantity, movements, itemUpdates, nextCall>>

\* The catalog at the start: items "i1" (SKU "s1") and "i2" (SKU "s2") in category
\* "c1", and the empty category "c2".
InitCatalog ==
    /\ items = [i \in ItemIds |-> [quantity |-> 10, status |-> "ACTIVE", minQuantity |-> 5,
                                   sku |-> SkuOf[i], categoryId |-> "c1"]]
    /\ initialQuantity = [i \in ItemIds |-> 10]
    /\ movements = <<>>
    /\ itemUpdates = {}
    /\ proc = [p \in Procs |-> IdleProc]
    /\ results = [c \in 1..MaxCalls |-> NoResult]
    /\ nextCall = 1
    /\ requests = [c \in 1..MaxCalls |-> NoRequest]
    /\ categories = [c \in CategoryIds |-> IF c = "c1" THEN "Tools" ELSE "Parts"]
    /\ server = Running

\* The SKUs the callers of the catalog send: one a stored item has, and a new one.
CatalogSkus == {"s2", "s3"}

\* The bodies of PUT /items/:id in the catalog: a SKU, or a category.
CatalogBodies ==
    {[NoBody EXCEPT !.sku = s] : s \in CatalogSkus}
        \cup {[NoBody EXCEPT !.categoryId = c] : c \in CategoryIds}

CatalogNext ==
    \/ /\ nextCall <= MaxCalls
       /\ \E p \in Idle, s \in CatalogSkus, c \in CategoryIds :
             CreateItem(p, s, c) /\ UNCHANGED <<requests, categories, server>>
    \/ /\ nextCall <= MaxCalls
       /\ \E p \in Idle, i \in ItemIds, b \in CatalogBodies :
             UpdateItem(p, i, b) /\ UNCHANGED <<requests, categories, server>>
    \/ /\ nextCall <= MaxCalls
       /\ \E p \in Idle, c \in CategoryIds : DeleteCategory(p, c) /\ UNCHANGED <<requests, server>>
    \/ \E p \in Procs : CreateFindSku(p) /\ UNCHANGED <<requests, categories, server>>
    \/ \E p \in Procs : CreateFindCategory(p) /\ UNCHANGED <<requests, categories, server>>
    \/ \E p \in Procs : CreateWrite(p) /\ UNCHANGED <<requests, categories, server>>
    \/ \E p \in Procs : UpdateFindItem(p) /\ UNCHANGED <<requests, categories, server>>
    \/ \E p \in Procs : UpdateFindSku(p) /\ UNCHANGED <<requests, categories, server>>
    \/ \E p \in Procs : UpdateFindCategory(p) /\ UNCHANGED <<requests, categories, server>>
    \/ \E p \in Procs : UpdateWrite(p) /\ UNCHANGED <<requests, categories, server>>
    \/ \E p \in Procs : DeleteFindCategory(p) /\ UNCHANGED <<requests, server>>
    \/ \E p \in Procs : DeleteCountItems(p) /\ UNCHANGED <<requests, server>>
    \/ \E p \in Procs : DeleteCategoryWrite(p) /\ UNCHANGED <<requests, server>>

SpecCatalog == InitCatalog /\ [][CatalogNext]_vars

\* ------------------------------------------------------------------------
\* The categories: CategoryService.createCategory (POST /categories) and
\* updateCategory (PUT /categories/:id), called one after the other
\* ------------------------------------------------------------------------

\* CategoryRepository.findByName: prisma.category.findUnique({where: {name}}), as a
\* found flag.
FindByName(name) == \E c \in DOMAIN categories : categories[c] = name

\* The unique index on Category.name that findUnique({where: {name}}) relies on: a
\* write that gives category id the name of another category is refused.
NameTakenByOther(id, name) == \E c \in DOMAIN categories \ {id} : categories[c] = name

\* Mutant of NameChanges: every name in the body counts as a change.
NameChanges_Always(body, existingName) == body.name # "-"

\* updateCategory: `data.name && data.name !== existingCategory.name`.
NameChanges(body, existingName) == body.name # "-" /\ body.name # existingName

\* The id the database gives the category that call `call` creates.
NewCategoryId(call) == <<"k1", "k2", "k3", "k4">>[call]

\* POST /categories: the call of createCategory(data) with a valid body.
CreateCategory(p, name) ==
    /\ proc[p].pc = "idle"
    /\ nextCall <= MaxCalls
    /\ results' = [results EXCEPT ![nextCall] = Result("pending")]
    /\ proc' = [proc EXCEPT ![p] =
          [IdleProc EXCEPT !.pc = "ccName", !.op = "createCategory", !.call = nextCall,
                           !.body = [NoBody EXCEPT !.name = name]]]
    /\ nextCall' = nextCall + 1
    /\ UNCHANGED <<items, initialQuantity, movements, itemUpdates, categories>>

\* createCategory: db.categories.findByName(data.name).
CreateFindName(p) ==
    /\ proc[p].pc = "ccName"
    /\ IF FindByName(proc[p].body.name)
       THEN Return(p, Result("nameExists"))
       ELSE /\ proc' = [proc EXCEPT ![p].pc = "ccWrite"]
            /\ UNCHANGED results
    /\ UNCHANGED <<items, initialQuantity, movements, itemUpdates, nextCall, categories>>

\* createCategory: db.categories.create(data), which throws when the name is taken
\* by now; the catch block returns 'Failed to create category'.
CreateCategoryWrite(p) ==
    /\ proc[p].pc = "ccWrite"
    /\ IF FindByName(proc[p].body.name)
       THEN /\ Return(p, CaughtError(proc[p].op, "uniqueName"))
            /\ UNCHANGED categories
       ELSE /\ categories' = [c \in DOMAIN categories \cup {NewCategoryId(proc[p].call)} |->
                                 IF c \in DOMAIN categories THEN categories[c]
                                 ELSE proc[p].body.name]
            /\ Return(p, Result("success"))
    /\ UNCHANGED <<items, initialQuantity, movements, itemUpdates, nextCall>>

\* PUT /categories/:id: the call of updateCategory(id, data) with a valid body.
UpdateCategory(p, id, body) ==
    /\ proc[p].pc = "idle"
    /\ nextCall <= MaxCalls
    /\ results' = [results EXCEPT ![nextCall] = Result("pending")]
    /\ proc' = [proc EXCEPT ![p] =
          [IdleProc EXCEPT !.pc = "ucFind", !.op = "updateCategory", !.call = nextCall,
                           !.body = [body EXCEPT !.categoryId = id]]]
    /\ nextCall' = nextCall + 1
    /\ UNCHANGED <<items, initialQuantity, movements, itemUpdates, categories>>

\* updateCategory: db.categories.findById(id), and the choice of the name lookup.
UpdateCategoryFind(p) ==
    /\ proc[p].pc = "ucFind"
    /\ IF ~CategoryExists(proc[p].body.categoryId)
       THEN Return(p, Result("categoryNotFound"))
       ELSE /\ proc' = [proc EXCEPT ![p].pc =
                  IF NameChanges(proc[p].body, categories[proc[p].body.categoryId])
                  THEN "ucName" ELSE "ucWrite"]
            /\ UNCHANGED results
    /\ UNCHANGED <<items, initialQuantity, movements, itemUpdates, nextCall, categories>>

\* updateCategory: db.categories.findByName(data.name) for a changed name.
UpdateCategoryFindName(p) ==
    /\ proc[p].pc = "ucName"
    /\ IF FindByName(proc[p].body.name)
       THEN Return(p, Result("nameExists"))
       ELSE /\ proc' = [proc EXCEPT ![p].pc = "ucWrite"]
            /\ UNCHANGED results
    /\ UNCHANGED <<items, initialQuantity, movements, itemUpdates, nextCall, categories>>

\* updateCategory: db.categories.update(id, data), which throws when the category
\* is gone or the name is taken by now; the catch block returns 'Failed to update
\* category'.
UpdateCategoryWrite(p) ==
    /\ proc[p].pc = "ucWrite"
    /\ IF ~CategoryExists(proc[p].body.categoryId)
       THEN /\ Return(p, CaughtError(proc[p].op, "ucWrite"))
            /\ UNCHANGED categories
       ELSE IF proc[p].body.name # "-" /\ NameTakenByOther(proc[p].body.categoryId, proc[p].body.name)
       THEN /\ Return(p, CaughtError(proc[p].op, "uniqueName"))
            /\ UNCHANGED categories
       ELSE /\ categories' = [categories EXCEPT ![proc[p].body.categoryId] =
                                 IF proc[p].body.name # "-" THEN proc[p].body.name ELSE @]
            /\ Return(p, Result("success"))
    /\ UNCHANGED <<items, initialQuantity, movements, itemUpdates, nextCall>>

\* The names the callers send: the names of the stored categories and a new one.
CategoryNameInputs == CategoryNames \cup {"Bolts"}

\* The ids the callers of updateCategory send: the stored categories and an id
\* that matches none.
UpdateCategoryIds == CategoryIds \cup {"c9"}

\* The bodies of PUT /categories/:id: a description only, or a name.
CategoryBodies == {NoBody} \cup {[NoBody EXCEPT !.name = n] : n \in CategoryNameInputs}

\* One caller, whose requests are logged with the category id and the name.
CategoriesNext ==
    \/ /\ nextCall <= MaxCalls
       /\ \E p \in Idle \cap LogProcs, n \in CategoryNameInputs :
             /\ CreateCategory(p, n)
             /\ UNCHANGED server
             /\ requests' = [requests EXCEPT ![nextCall] =
                   LoggedRequest("createCategory", "-", n, 0, NoUser, 0)]
    \/ /\ nextCall <= MaxCalls
       /\ \E p \in Idle \cap LogProcs, c \in UpdateCategoryIds, b \in CategoryBodies :
             /\ UpdateCategory(p, c, b)
             /\ UNCHANGED server
             /\ requests' = [requests EXCEPT ![nextCall] =
                   LoggedRequest("updateCategory", c, b.name, 0, NoUser, 0)]
    \/ \E p \in LogProcs : CreateFindName(p) /\ UNCHANGED <<requests, server>>
    \/ \E p \in LogProcs : CreateCategoryWrite(p) /\ UNCHANGED <<requests, server>>
    \/ \E p \in LogProcs : UpdateCategoryFind(p) /\ UNCHANGED <<requests, server>>
    \/ \E p \in LogProcs : UpdateCategoryFindName(p) /\ UNCHANGED <<requests, server>>
    \/ \E p \in LogProcs : UpdateCategoryWrite(p) /\ UNCHANGED <<requests, server>>

SpecCategories == InitCatalog /\ [][CategoriesNext]_vars

\* ------------------------------------------------------------------------
\* createMovement on two stored items, each handler working on an item of its own
\* ------------------------------------------------------------------------

PairItem == [p \in Procs |-> IF p = "p1" THEN "i1" ELSE "i2"]

InitPair ==
    /\ \E q \in [ItemIds -> InitQuantities] :
          /\ items = [i \in ItemIds |-> [quantity |-> q[i], status |-> "ACTIVE", minQuantity |-> 5,
                                       sku |-> SkuOf[i], categoryId |-> "c1"]]
          /\ initialQuantity = q
    /\ movements = <<>>
    /\ itemUpdates = {}
    /\ proc = [p \in Procs |-> IdleProc]
    /\ results = [c \in 1..MaxCalls |-> NoResult]
    /\ nextCall = 1
    /\ requests = [c \in 1..MaxCalls |-> NoRequest]
    /\ categories = [c \in {"c1"} |-> "Tools"]
    /\ server = Running

PairNext ==
    \/ /\ nextCall <= MaxCalls
       /\ \E p \in Idle, t \in MovementTypes, q \in QuantityInputs, u \in UserInputs :
             CreateMovement(p, PairItem[p], t, q, u) /\ UNCHANGED <<requests, categories, server>>
    \/ \E p \in Procs : FindItem(p) /\ UNCHANGED <<requests, categories, server>>
    \/ \E p \in Procs : TxCreateMovement(p) /\ UNCHANGED <<requests, categories, server>>
    \/ \E p \in Procs : TxUpdateItem(p) /\ UNCHANGED <<requests, categories, server>>
    \/ \E p \in Procs : TxCommit(p) /\ UNCHANGED <<requests, categories, server>>
    \/ \E p \in Procs : StorageFailure(p) /\ UNCHANGED <<requests, categories, server>>

SpecPair == InitPair /\ [][PairNext]_vars

\* ------------------------------------------------------------------------
\* The movement operations with handlers that keep running: every await of a
\* handler settles, with its value or with a thrown storage error
\* ------------------------------------------------------------------------

HandlerStep(p) ==
    \/ AdjustFindItem(p) /\ UNCHANGED <<requests, categories, server>>
    \/ FindItem(p) /\ UNCHANGED <<requests, categories, server>>
    \/ TxCreateMovement(p) /\ UNCHANGED <<requests, categories, server>>
    \/ TxUpdateItem(p) /\ UNCHANGED <<requests, categories, server>>
    \/ TxCommit(p) /\ UNCHANGED <<requests, categories, server>>

\* createMovement is called for issues; adjustments come through adjustInventory.
FairMovementTypes == {"OUT"}

FairNext ==
    \/ /\ nextCall <= MaxCalls
       /\ \E p \in Idle, i \in ItemIds, t \in FairMovementTypes, q \in QuantityInputs, u \in UserInputs :
             CreateMovement(p, i, t, q, u) /\ UNCHANGED <<requests, categories, server>>
    \/ /\ nextCall <= MaxCalls
       /\ \E p \in Idle, i \in ItemIds, q \in NewQuantityInputs, u \in UserInputs :
             AdjustInventory(p, i, q, u) /\ UNCHANGED <<requests, categories, server>>
    \/ \E p \in Procs : HandlerStep(p)
    \/ \E p \in Procs : StorageFailure(p) /\ UNCHANGED <<requests, categories, server>>

SpecFair == Init /\ [][FairNext]_vars /\ \A p \in Procs : WF_vars(HandlerStep(p))

\* ------------------------------------------------------------------------
\* POST /items/:itemId/adjust with its request body: validateAdjustInventory, then
\* MovementController.adjustInventory
\* ------------------------------------------------------------------------

\* Bodies of the adjust endpoint: {quantity: d, reason} as the endpoint's tests and
\* its API description send it, and {newQuantity: n, reason} as the schema has it.
AdjustDeltaInputs == {-4, 6}

AdjustBodies ==
    {[field |-> "quantity", value |-> d] : d \in AdjustDeltaInputs}
    \cup {[field |-> "newQuantity", value |-> n] : n \in NewQuantityInputs}

\* adjustInventorySchema: newQuantity is required and >= 0, and no other key than
\* newQuantity and reason is allowed.
AdjustBodyRejected(body) == body.field # "newQuantity" \/ body.value < 0

\* The request passes the validation middleware, or gets 'Validation failed'.
AdjustRequest(p, itemId, body, userId) ==
    /\ UNCHANGED <<categories, server>>
    /\ requests' = [requests EXCEPT ![nextCall] =
          LoggedRequest("adjustRequest", itemId, body.field, body.value, userId, 0)]
    /\ IF AdjustBodyRejected(body)
       THEN /\ proc[p].pc = "idle"
            /\ nextCall <= MaxCalls
            /\ results' = [results EXCEPT ![nextCall] = Result("validationFailed")]
            /\ nextCall' = nextCall + 1
            /\ UNCHANGED <<items, initialQuantity, movements, itemUpdates, proc>>
       ELSE AdjustInventory(p, itemId, body.value, userId)

AdjustNext ==
    \/ /\ nextCall <= MaxCalls
       /\ \E p \in Idle, i \in ItemIds, b \in AdjustBodies, u \in UserInputs :
             AdjustRequest(p, i, b, u)
    \/ \E p \in Procs : AdjustFindItem(p) /\ UNCHANGED <<requests, categories, server>>
    \/ \E p \in Procs : FindItem(p) /\ UNCHANGED <<requests, categories, server>>
    \/ \E p \in Procs : TxCreateMovement(p) /\ UNCHANGED <<requests, categories, server>>
    \/ \E p \in Procs : TxUpdateItem(p) /\ UNCHANGED <<requests, categories, server>>
    \/ \E p \in Procs : TxCommit(p) /\ UNCHANGED <<requests, categories, server>>
    \/ \E p \in Procs : StorageFailure(p) /\ UNCHANGED <<requests, categories, server>>

SpecAdjust == Init /\ [][AdjustNext]_vars

\* ------------------------------------------------------------------------
\* createMovement called one request after the other, for a stored and for an
\* unknown item, with and without a valid quantity
\* ------------------------------------------------------------------------

\* Issues and transfers: a transfer is not checked against the stock, so it can
\* leave a stored quantity under every requested quantity.
OrderTypes == {"OUT", "TRANSFER"}

OrderNext ==
    \/ /\ nextCall <= MaxCalls
       /\ \E p \in Idle \cap LogProcs, i \in ItemIds, t \in OrderTypes, q \in QuantityInputs :
             /\ CreateMovement(p, i, t, q, "u1")
             /\ UNCHANGED <<categories, server>>
             /\ requests' = [requests EXCEPT ![nextCall] =
                   LoggedRequest("createMovement", i, t, q, "u1", 0)]
    \/ \E p \in LogProcs : FindItem(p) /\ UNCHANGED <<requests, categories, server>>
    \/ \E p \in LogProcs : TxCreateMovement(p) /\ UNCHANGED <<requests, categories, server>>
    \/ \E p \in LogProcs : TxUpdateItem(p) /\ UNCHANGED <<requests, categories, server>>
    \/ \E p \in LogProcs : TxCommit(p) /\ UNCHANGED <<requests, categories, server>>

SpecOrder == Init /\ [][OrderNext]_vars

\* ------------------------------------------------------------------------
\* MovementService.getMovementStats (GET /movements/stats) after movements on two
\* stored items
\* ------------------------------------------------------------------------

\* The query parameter itemId when the request carries none.
NoFilter == "-"

\* Mutant of StatsWhere: the item filter is dropped.
StatsWhere_AllItems(itemId) == NoFilter

\* MovementRepository.getMovementStats: `itemId ? { itemId } : {}`.
StatsWhere(itemId) == IF itemId # NoFilter /\ itemId # "" THEN itemId ELSE NoFilter

\* The committed movement rows that match {...where, type}.
MatchingRows(where, type) ==
    {k \in 1..Len(movements) :
        movements[k].type = type /\ (where = NoFilter \/ movements[k].itemId = where)}

RECURSIVE SumOfRows(_)
SumOfRows(rows) ==
    IF rows = {} THEN 0
    ELSE LET k == CHOOSE r \in rows : TRUE
         IN movements[k].quantity + SumOfRows(rows \ {k})

\* prisma.movement.aggregate({where, _sum: {quantity: true}}): _sum.quantity is
\* null when no row matches.
Aggregate(where, type) ==
    IF MatchingRows(where, type) = {}
    THEN [isNull |-> TRUE, quantity |-> 0]
    ELSE [isNull |-> FALSE, quantity |-> SumOfRows(MatchingRows(where, type))]

\* `_sum.quantity || 0`.
OrZero(sum) == IF sum.isNull \/ sum.quantity = 0 THEN 0 ELSE sum.quantity

\* MovementRepository.getMovementStats: the five aggregates and the returned record.
MovementStats(itemId) ==
    LET where == StatsWhere(itemId) IN
    [totalIn |-> OrZero(Aggregate(where, "IN")),
     totalOut |-> OrZero(Aggregate(where, "OUT")),
     totalAdjustments |-> OrZero(Aggregate(where, "ADJUSTMENT")),
     totalTransfers |-> OrZero(Aggregate(where, "TRANSFER")),
     totalReturns |-> OrZero(Aggregate(where, "RETURN"))]

\* GET /movements/stats: the call of getMovementStats(itemId).
GetMovementStats(p, itemId) ==
    /\ proc[p].pc = "idle"
    /\ nextCall <= MaxCalls
    /\ results' = [results EXCEPT ![nextCall] = Result("pending")]
    /\ proc' = [proc EXCEPT ![p] =
          [IdleProc EXCEPT !.pc = "statsRead", !.op = "getMovementStats", !.call = nextCall,
                           !.data = [itemId |-> itemId, type |-> "-", quantity |-> 0]]]
    /\ nextCall' = nextCall + 1
    /\ UNCHANGED <<items, initialQuantity, movements, itemUpdates>>

\* getMovementStats: `const stats = await this.db.movements.getMovementStats(itemId)`.
\* The caller of this specification calls one after the other, so no write runs
\* between the five aggregates.
StatsRead(p) ==
    /\ proc[p].pc = "statsRead"
    /\ proc' = [proc EXCEPT ![p].pc = "statsReturn",
                            ![p].stats = MovementStats(proc[p].data.itemId)]
    /\ UNCHANGED <<items, initialQuantity, movements, itemUpdates, results, nextCall>>

\* getMovementStats: `return {success: true, data: stats}`.
StatsReturn(p) ==
    /\ proc[p].pc = "statsReturn"
    /\ Return(p, Result("success"))
    /\ UNCHANGED <<items, initialQuantity, movements, itemUpdates, nextCall>>

\* The quantities of the movements that precede the statistics.
StatsQuantities == {6}

\* The ledger at the start: item "i1" was created with 10 and has received 4 since,
\* item "i2" has no movement.
InitStats ==
    /\ items = [i \in ItemIds |->
                  [quantity |-> IF i = "i1" THEN 14 ELSE 10, status |-> "ACTIVE",
                   minQuantity |-> 5, sku |-> SkuOf[i], categoryId |-> "c1"]]
    /\ initialQuantity = [i \in ItemIds |-> 10]
    /\ movements = <<[call |-> 0, itemId |-> "i1", type |-> "IN", quantity |-> 4, userId |-> "u1"]>>
    /\ itemUpdates = {0}
    /\ proc = [p \in Procs |-> IdleProc]
    /\ results = [c \in 1..MaxCalls |-> NoResult]
    /\ nextCall = 1
    /\ requests = [c \in 1..MaxCalls |-> NoRequest]
    /\ categories = [c \in {"c1"} |-> "Tools"]
    /\ server = Running

\* The item filters of the statistics: a stored item, or none.
StatsFilters == ItemIds \cup {NoFilter}

StatsNext ==
    \/ /\ nextCall <= MaxCalls
       /\ \E p \in Idle \cap LogProcs, i \in ItemIds, t \in MovementTypes, q \in StatsQuantities :
             CreateMovement(p, i, t, q, "u1") /\ UNCHANGED <<requests, categories, server>>
    \/ /\ nextCall <= MaxCalls
       /\ \E p \in Idle \cap LogProcs, f \in StatsFilters :
             GetMovementStats(p, f) /\ UNCHANGED <<requests, categories, server>>
    \/ \E p \in LogProcs : FindItem(p) /\ UNCHANGED <<requests, categories, server>>
    \/ \E p \in LogProcs : TxCreateMovement(p) /\ UNCHANGED <<requests, categories, server>>
    \/ \E p \in LogProcs : TxUpdateItem(p) /\ UNCHANGED <<requests, categories, server>>
    \/ \E p \in LogProcs : TxCommit(p) /\ UNCHANGED <<requests, categories, server>>
    \/ \E p \in LogProcs : StatsRead(p) /\ UNCHANGED <<requests, categories, server>>
    \/ \E p \in LogProcs : StatsReturn(p) /\ UNCHANGED <<requests, categories, server>>

SpecStats == InitStats /\ [][StatsNext]_vars

\* ------------------------------------------------------------------------
\* Paginated queries: ItemService.getAllItems (GET /items?page=&limit=) over
\* catalogs of every size up to five items
\* ------------------------------------------------------------------------

\* The item ids in the order of the query (buildOrderBy).
PageItemIds == <<"i1", "i2", "i3", "i4", "i5">>

PageInputs == {1, 2, 3, 4}
LimitInputs == {1, 2, 3}

\* Mutant of BuildPagination: the records of the page itself are skipped too.
BuildPagination_SkipsPage(page, limit) == [skip |-> page * limit, take |-> limit]

\* BaseRepository.buildPagination.
BuildPagination(page, limit) == [skip |-> (page - 1) * limit, take |-> limit]

\* Math.ceil(total / limit) for total >= 0 and limit >= 1.
CeilOfQuotient(total, limit) ==
    IF total % limit = 0 THEN total \div limit ELSE (total \div limit) + 1

\* BaseRepository.calculatePaginationInfo.
CalculatePaginationInfo(page, limit, total) ==
    [page |-> page, limit |-> limit, total |-> total,
     totalPages |-> CeilOfQuotient(total, limit),
     hasNext |-> page < CeilOfQuotient(total, limit),
     hasPrev |-> page > 1]

\* The stored items in the order of the query.
OrderedItems == SelectSeq(PageItemIds, LAMBDA i : i \in DOMAIN items)

\* prisma.item.findMany({orderBy, skip, take}).
FindMany(skip, take) ==
    SubSeq(OrderedItems, skip + 1,
           IF skip + take < Len(OrderedItems) THEN skip + take ELSE Len(OrderedItems))

\* prisma.item.count({where}).
CountItems == Cardinality(DOMAIN items)

\* GET /items: the call of getAllItems({page, limit}).
GetAllItems(p, page, limit) ==
    /\ proc[p].pc = "idle"
    /\ nextCall <= MaxCalls
    /\ results' = [results EXCEPT ![nextCall] = Result("pending")]
    /\ proc' = [proc EXCEPT ![p] =
          [IdleProc EXCEPT !.pc = "listQuery", !.op = "getAllItems", !.call = nextCall,
                           !.listing = [NoListing EXCEPT !.page = page, !.limit = limit]]]
    /\ nextCall' = nextCall + 1
    /\ UNCHANGED <<items, initialQuantity, movements, itemUpdates>>

\* ItemRepository.findAll: findMany with the skip and take of buildPagination, the
\* count, and calculatePaginationInfo.
ListQuery(p) ==
    /\ proc[p].pc = "listQuery"
    /\ LET l == proc[p].listing
           window == BuildPagination(l.page, l.limit)
       IN proc' = [proc EXCEPT ![p].pc = "listReturn",
                 ![p].listing = [l EXCEPT !.skip = window.skip, !.take = window.take,
                                          !.data = FindMany(window.skip, window.take),
                                          !.pagination =
                                              CalculatePaginationInfo(l.page, l.limit, CountItems)]]
    /\ UNCHANGED <<items, initialQuantity, movements, itemUpdates, results, nextCall>>

\* getAllItems: the return of {items, pagination}.
ListReturn(p) ==
    /\ proc[p].pc = "listReturn"
    /\ Return(p, Result("success"))
    /\ UNCHANGED <<items, initialQuantity, movements, itemUpdates, nextCall>>

\* A catalog of the first n items, for every n up to the number of ids.
InitPages ==
    /\ \E n \in 0..Len(PageItemIds) :
          /\ items = [i \in {PageItemIds[k] : k \in 1..n} |->
                        [quantity |-> 10, status |-> "ACTIVE", minQuantity |-> 5,
                         sku |-> i, categoryId |-> "c1"]]
          /\ initialQuantity = [i \in {PageItemIds[k] : k \in 1..n} |-> 10]
    /\ movements = <<>>
    /\ itemUpdates = {}
    /\ proc = [p \in Procs |-> IdleProc]
    /\ results = [c \in 1..MaxCalls |-> NoResult]
    /\ nextCall = 1
    /\ requests = [c \in 1..MaxCalls |-> NoRequest]
    /\ categories = [c \in {"c1"} |-> "Tools"]
    /\ server = Running

PagesNext ==
    \/ /\ nextCall <= MaxCalls
       /\ \E p \in Idle \cap LogProcs, page \in PageInputs, limit \in LimitInputs :
             GetAllItems(p, page, limit) /\ UNCHANGED <<requests, categories, server>>
    \/ \E p \in LogProcs : ListQuery(p) /\ UNCHANGED <<requests, categories, server>>
    \/ \E p \in LogProcs : ListReturn(p) /\ UNCHANGED <<requests, categories, server>>

SpecPages == InitPages /\ [][PagesNext]_vars

\* ------------------------------------------------------------------------
\* Graceful shutdown: the SIGTERM/SIGINT handler of startServer, next to the
\* requests that are in flight when the signal arrives
\* ------------------------------------------------------------------------

Signals == {"SIGTERM", "SIGINT"}

\* The outcomes of prismaConfig.$disconnect().
DisconnectOutcomes == {"disconnected", "disconnectFailed"}

\* disconnectDatabase: try { await prismaConfig.$disconnect() } catch (error)
\* { console.error(...) }. The error is logged and not thrown again, so the call
\* returns normally after either outcome.
DisconnectDatabaseThrows(db) == FALSE

\* The close callback of gracefulShutdown: process.exit(0) after disconnectDatabase
\* returned, process.exit(1) in the catch block.
ExitCodeAfterDisconnect(db) == IF DisconnectDatabaseThrows(db) THEN 1 ELSE 0

\* process.on(signal): gracefulShutdown calls server.close and arms the timer.
ReceiveSignal(sig) ==
    /\ ~server.exited
    /\ server' = [server EXCEPT !.signalled = TRUE,
                                !.http = IF @ = "listening" THEN "closing" ELSE @,
                                !.timer = "armed"]
    /\ UNCHANGED <<items, initialQuantity, movements, itemUpdates, proc, results, nextCall,
                   requests, categories>>

\* The HTTP server has closed: it stopped listening and the requests in flight
\* have been answered. The close callback starts.
HttpServerClosed ==
    /\ ~server.exited
    /\ server.http = "closing"
    /\ \A p \in Procs : proc[p].pc = "idle"
    /\ server' = [server EXCEPT !.http = "closed"]
    /\ UNCHANGED <<items, initialQuantity, movements, itemUpdates, proc, results, nextCall,
                   requests, categories>>

\* The close callback: prismaConfig.$disconnect() settles.
PrismaDisconnect(outcome) ==
    /\ ~server.exited
    /\ server.http = "closed"
    /\ server.db = "connected"
    /\ server' = [server EXCEPT !.db = outcome]
    /\ UNCHANGED <<items, initialQuantity, movements, itemUpdates, proc, results, nextCall,
                   requests, categories>>

\* The close callback after `await disconnectDatabase()`: process.exit.
ExitAfterDisconnect ==
    /\ ~server.exited
    /\ server.db \in DisconnectOutcomes
    /\ server' = [server EXCEPT !.exited = TRUE, !.code = ExitCodeAfterDisconnect(server.db)]
    /\ UNCHANGED <<items, initialQuantity, movements, itemUpdates, proc, results, nextCall,
                   requests, categories>>

\* setTimeout(..., 10000): 'Forced shutdown after timeout', process.exit(1).
ForcedShutdown ==
    /\ ~server.exited
    /\ server.timer = "armed"
    /\ server' = [server EXCEPT !.exited = TRUE, !.code = 1, !.timer = "fired"]
    /\ UNCHANGED <<items, initialQuantity, movements, itemUpdates, proc, results, nextCall,
                   requests, categories>>

\* The requests around a shutdown: receipts and issues of 6 on the stored item. A
\* server that is closing accepts no new request; the handlers in flight run on
\* until the process exits.
ShutdownNext ==
    \/ /\ nextCall <= MaxCalls
       /\ server.http = "listening"
       /\ \E p \in Idle, t \in ItemOpsTypes, q \in ItemOpsQuantities :
             CreateMovement(p, "i1", t, q, "u1") /\ UNCHANGED <<requests, categories, server>>
    \/ /\ ~server.exited
       /\ \E p \in Procs : FindItem(p) /\ UNCHANGED <<requests, categories, server>>
    \/ /\ ~server.exited
       /\ \E p \in Procs : TxCreateMovement(p) /\ UNCHANGED <<requests, categories, server>>
    \/ /\ ~server.exited
       /\ \E p \in Procs : TxUpdateItem(p) /\ UNCHANGED <<requests, categories, server>>
    \/ /\ ~server.exited
       /\ \E p \in Procs : TxCommit(p) /\ UNCHANGED <<requests, categories, server>>
    \/ \E sig \in Signals : ReceiveSignal(sig)
    \/ HttpServerClosed
    \/ \E outcome \in DisconnectOutcomes : PrismaDisconnect(outcome)
    \/ ExitAfterDisconnect
    \/ ForcedShutdown

\* The event loop runs a timer that is due.
SpecShutdown == Init /\ [][ShutdownNext]_vars /\ WF_vars(ForcedShutdown)

\* ------------------------------------------------------------------------
\* Properties
\* ------------------------------------------------------------------------

Calls == 1..MaxCalls

\* The committed movements of item i, in commit order.
ItemMovements(i) == SelectSeq(movements, LAMBDA m : m.itemId = i)

\* Call c has a committed movement row.
HasMovement(c) == \E k \in 1..Len(movements) : movements[k].call = c

\* The projector rules of the specification: IN and RETURN add, OUT and TRANSFER
\* subtract, ADJUSTMENT sets.
ProjectorRule(current, type, quantity) ==
    IF type \in {"IN", "RETURN"} THEN current + quantity
    ELSE IF type \in {"OUT", "TRANSFER"} THEN current - quantity
    ELSE quantity

RECURSIVE Replay(_, _)
Replay(ms, q) ==
    IF ms = <<>> THEN q
    ELSE Replay(Tail(ms), ProjectorRule(q, Head(ms).type, Head(ms).quantity))

\* Handler p takes the step that follows its item lookup in createMovement, and
\* the lookup itself did not fail.
LookupStep(p) ==
    /\ proc[p].pc = "find"
    /\ proc'[p].pc # "find"
    /\ results'[proc[p].call].failedAt # "find"
    /\ proc[p].data.itemId \in DOMAIN items

\* C1: the stored quantity of every item is >= 0 in every reachable state.
C1_NonNegativeQuantity == \A i \in DOMAIN items : items[i].quantity >= 0

\* C2: on an item created with quantity 10, of the createMovement calls of type OUT
\* with quantity 6 that run against it (no other movement being committed), at
\* most one succeeds, and the stored quantity is never negative.
C2_NoConcurrentOverdraw ==
    ( /\ initialQuantity["i1"] = 10
      /\ \A k \in 1..Len(movements) :
            movements[k].type = "OUT" /\ movements[k].quantity = 6 )
    => /\ Cardinality({c \in Calls : results[c].kind = "success" /\ HasMovement(c)}) <= 1
       /\ items["i1"].quantity >= 0

\* C3: createMovement(item, OUT, q) with q > item.quantity returns the failure that
\* reports the available quantity, and changes neither the items nor the ledger.
C3_OutGuard ==
    [][\A p \in Procs :
          ( /\ LookupStep(p)
            /\ proc[p].data.type = "OUT"
            /\ proc[p].data.quantity > items[proc[p].data.itemId].quantity )
          => /\ results'[proc[p].call].kind = "insufficient"
             /\ results'[proc[p].call].available = items[proc[p].data.itemId].quantity
             /\ items' = items
             /\ movements' = movements]_vars

\* C4: createMovement(item, TRANSFER, q) with q > item.quantity is rejected with the
\* insufficient-stock failure, and changes neither the items nor the ledger.
C4_TransferGuard ==
    [][\A p \in Procs :
          ( /\ LookupStep(p)
            /\ proc[p].data.type = "TRANSFER"
            /\ proc[p].data.quantity > 0
            /\ proc[p].data.quantity > items[proc[p].data.itemId].quantity )
          => /\ results'[proc[p].call].kind = "insufficient"
             /\ items' = items
             /\ movements' = movements]_vars

\* C5: in every reachable state a call has a committed movement row if and only if
\* its item-quantity update is committed, also after a storage failure inside the
\* transaction.
C5_Atomicity == \A c \in Calls : HasMovement(c) <=> c \in itemUpdates

\* C5 witness: a storage failure hit a transaction after its movement insert and
\* before its item update, and neither write of that call is committed.
C5_Witness ==
    \E c \in Calls :
        /\ results[c].kind = "failed"
        /\ results[c].failedAt = "txUpdate"
        /\ ~HasMovement(c)
        /\ c \notin itemUpdates

\* C6: folding the projector rules over an item's committed movements in commit
\* order, from the item's initial quantity, yields the item's stored quantity.
C6_ReplayDeterminism ==
    \A i \in DOMAIN items : Replay(ItemMovements(i), initialQuantity[i]) = items[i].quantity

\* C7: when two createMovement calls of type IN with quantities a and b against the
\* same item of quantity c both return success, the stored quantity is c + a + b.
C7_NoLostUpdate ==
    ( /\ Len(movements) = 2
      /\ \A k \in 1..2 :
            /\ movements[k].type = "IN"
            /\ movements[k].itemId = "i1"
            /\ results[movements[k].call].kind = "success" )
    => items["i1"].quantity
          = initialQuantity["i1"] + movements[1].quantity + movements[2].quantity

\* C8: a successful createMovement(item, ADJUSTMENT, q) leaves the stored quantity
\* equal to exactly q, whatever the quantity was before.
C8_AdjustmentAbsolute ==
    [][\A p \in Procs :
          ( /\ proc[p].pc = "txCommit"
            /\ proc[p].data.type = "ADJUSTMENT"
            /\ results'[proc[p].call].kind = "success" )
          => items'[proc[p].data.itemId].quantity = proc[p].data.quantity]_vars

\* C8 witness: a successful ADJUSTMENT is the last committed movement, and the item
\* holds its quantity, which differs from the quantity the item started with.
C8_Witness ==
    /\ Len(movements) >= 1
    /\ LET m == movements[Len(movements)] IN
          /\ m.type = "ADJUSTMENT"
          /\ results[m.call].kind = "success"
          /\ items[m.itemId].quantity = m.quantity
          /\ initialQuantity[m.itemId] # m.quantity
          /\ initialQuantity[m.itemId] # 0

\* C9: an ADJUSTMENT with quantity 0 on an existing item passes the checks of
\* createMovement and goes on to its transaction (it is accepted).
C9_AdjustToZeroAccepted ==
    [][\A p \in Procs :
          ( /\ LookupStep(p)
            /\ proc[p].data.type = "ADJUSTMENT"
            /\ proc[p].data.quantity = 0 )
          => proc'[p].pc = "txCreate"]_vars

\* C10: a call that returned success = false has committed neither a movement nor
\* an item update.
C10_FailureNoEffect ==
    \A c \in Calls :
        results[c].kind \in Failures => ~HasMovement(c) /\ c \notin itemUpdates

\* Handler p commits its transaction in this step.
CommitStep(p) ==
    /\ proc[p].pc = "txCommit"
    /\ proc'[p].pc = "idle"
    /\ Len(movements') = Len(movements) + 1
    /\ movements'[Len(movements')].call = proc[p].call

\* C13: when createMovement commits a movement of quantity q on an item whose stored
\* quantity c is still the one the call read (no other call intervened), the stored
\* quantity after the commit is c + q for IN and RETURN and c - q for OUT and
\* TRANSFER.
C13_ProjectorDeltas ==
    [][\A p \in Procs :
          ( /\ CommitStep(p)
            /\ proc[p].data.type \in {"IN", "RETURN", "OUT", "TRANSFER"}
            /\ items[proc[p].data.itemId].quantity = proc[p].item.quantity )
          => LET c == items[proc[p].data.itemId].quantity
                 q == proc[p].data.quantity
             IN items'[proc[p].data.itemId].quantity =
                   IF proc[p].data.type \in {"IN", "RETURN"} THEN c + q ELSE c - q]_vars

\* C13 witness: a RETURN of 6 and then an OUT of 6, both successful, have been
\* committed one after the other, and the item is back at its initial quantity.
C13_Witness ==
    /\ Len(movements) = 2
    /\ movements[1].type = "RETURN" /\ movements[1].quantity = 6
    /\ movements[2].type = "OUT" /\ movements[2].quantity = 6
    /\ movements[1].call = 1 /\ movements[2].call = 2
    /\ results[1].kind = "success" /\ results[2].kind = "success"
    /\ items["i1"].quantity = initialQuantity["i1"]

\* C14: once createMovement has committed a movement on an item, the item's stored
\* status is OUT_OF_STOCK if its stored quantity is 0 and ACTIVE otherwise, whatever
\* its minQuantity.
C14_StatusDerivation ==
    \A i \in DOMAIN items :
        ItemMovements(i) # <<>> =>
            items[i].status = IF items[i].quantity = 0 THEN "OUT_OF_STOCK" ELSE "ACTIVE"

\* C14 witness: after a successful movement the item holds a quantity above 0 and
\* at or below its minQuantity, and its status is ACTIVE.
C14_Witness ==
    /\ Len(movements) >= 1
    /\ results[movements[Len(movements)].call].kind = "success"
    /\ items["i1"].quantity > 0
    /\ items["i1"].quantity <= items["i1"].minQuantity
    /\ items["i1"].status = "ACTIVE"

\* C15: when createMovement or adjustInventory looks up an itemId that matches no
\* item (and the lookup itself does not fail), the call returns 'Item not found',
\* opens no transaction, commits no movement and changes no item.
C15_UnknownItem ==
    [][\A p \in Procs :
          ( /\ proc[p].pc \in {"find", "adjustFind"}
            /\ proc[p].data.itemId \notin DOMAIN items
            /\ proc'[p].pc # proc[p].pc
            /\ results'[proc[p].call].failedAt = "-" )
          => /\ results'[proc[p].call].kind = "notFound"
             /\ proc'[p] = IdleProc
             /\ movements' = movements
             /\ items' = items
             /\ itemUpdates' = itemUpdates]_vars

\* C15 witness: a createMovement call and an adjustInventory call both returned
\* 'Item not found' (both calls were made and none is pending), the ledger is empty
\* and the stored item is as it was created.
C15_Witness ==
    /\ results[1].kind = "notFound"
    /\ results[2].kind = "notFound"
    /\ movements = <<>>
    /\ itemUpdates = {}
    /\ items["i1"].quantity = initialQuantity["i1"]
    /\ items["i1"].status = "ACTIVE"

\* C16: a createMovement call of type IN, OUT, TRANSFER or RETURN with quantity <= 0
\* on an existing item never opens a transaction and never has a committed movement
\* or item update; unless its item lookup fails, it returns the quantity validation
\* failure.
C16_QuantityValidation ==
    \A c \in Calls :
        ( /\ requests[c].op = "createMovement"
          /\ requests[c].type \in {"IN", "OUT", "TRANSFER", "RETURN"}
          /\ requests[c].quantity <= 0
          /\ requests[c].itemId \in DOMAIN items )
        => /\ results[c].kind \in {"pending", "invalidQuantity", "failed"}
           /\ results[c].kind = "failed" => results[c].failedAt = "find"
           /\ ~HasMovement(c)
           /\ c \notin itemUpdates
           /\ \A p \in Procs :
                 proc[p].call = c =>
                    /\ proc[p].pc = "find"
                    /\ proc[p].txMovement = NoMovement
                    /\ proc[p].txUpdate = NoUpdate

\* C16 witness: a RETURN with quantity 0 was rejected with the quantity validation
\* failure, and the ledger and the item are as they were.
C16_Witness ==
    \E c \in Calls :
        /\ requests[c].op = "createMovement"
        /\ requests[c].type = "RETURN"
        /\ requests[c].quantity = 0
        /\ results[c].kind = "invalidQuantity"
        /\ movements = <<>>
        /\ items["i1"].quantity = initialQuantity["i1"]

\* The calls c and d were made with the same item, quantity and user, c through
\* adjustInventory and d through createMovement with type ADJUSTMENT.
SameAdjustment(c, d) ==
    /\ requests[c].op = "adjustInventory"
    /\ requests[d].op = "createMovement"
    /\ requests[d].type = "ADJUSTMENT"
    /\ requests[d].itemId = requests[c].itemId
    /\ requests[d].quantity = requests[c].quantity
    /\ requests[d].userId = requests[c].userId

\* The movement call c committed, as <<type, quantity>>; <<>> if it committed none.
CommittedBy(c) ==
    LET ms == SelectSeq(movements, LAMBDA m : m.call = c)
    IN [k \in 1..Len(ms) |-> <<ms[k].type, ms[k].quantity, ms[k].itemId>>]

\* No storage call of call c failed.
NoStorageFailure(c) == results[c].failedAt \in {"-", "map"}

\* C17: an adjustInventory(itemId, newQuantity, userId) call that passed the
\* controller runs createMovement with {itemId, ADJUSTMENT, newQuantity} and userId,
\* writes nothing before that, and commits at most one movement, of type ADJUSTMENT
\* and quantity newQuantity; when no storage call fails, its result and its committed
\* movement are those of a createMovement call with the same ADJUSTMENT data.
C17_AdjustIsSugar ==
    \A c \in Calls :
        requests[c].op = "adjustInventory" =>
           /\ \A p \in Procs :
                 proc[p].call = c =>
                    /\ proc[p].data = [itemId |-> requests[c].itemId, type |-> "ADJUSTMENT",
                                       quantity |-> requests[c].quantity]
                    /\ proc[p].userId = requests[c].userId
                    /\ proc[p].pc = "adjustFind" =>
                          proc[p].txMovement = NoMovement /\ proc[p].txUpdate = NoUpdate
           /\ CommittedBy(c) \in {<<>>, << <<"ADJUSTMENT", requests[c].quantity, requests[c].itemId>> >>}
           /\ \A d \in Calls :
                 ( /\ SameAdjustment(c, d)
                   /\ results[c].kind # "pending" /\ results[d].kind # "pending"
                   /\ NoStorageFailure(c) /\ NoStorageFailure(d) )
                 => /\ results[c] = results[d]
                    /\ CommittedBy(c) = CommittedBy(d)

\* C17 witness: adjustInventory(i1, 6, u1) and createMovement({i1, ADJUSTMENT, 6}, u1)
\* both returned success, each committed an ADJUSTMENT of 6, and the item holds 6
\* with status ACTIVE.
C17_Witness ==
    \E c, d \in Calls :
        /\ SameAdjustment(c, d)
        /\ requests[c].quantity = 6
        /\ results[c].kind = "success" /\ results[d].kind = "success"
        /\ CommittedBy(c) = << <<"ADJUSTMENT", 6, "i1">> >>
        /\ CommittedBy(d) = << <<"ADJUSTMENT", 6, "i1">> >>
        /\ items["i1"].quantity = 6
        /\ items["i1"].status = "ACTIVE"

C12_QuantityOnlyThroughMovements ==
    [][\A i \in DOMAIN items \cap DOMAIN items' :
          items'[i].quantity # items[i].quantity =>
             /\ Len(movements') = Len(movements) + 1
             /\ movements'[Len(movements')].itemId = i]_vars

\* C18: each item's stored quantity is the fold of the projector rules over its own
\* committed movements (the quantities the calls give when run one after the other,
\* in either order), and a step of a handler working on one item changes neither
\* the row nor the movements of any other item.
C18_ItemIndependence ==
    /\ [](\A i \in DOMAIN items :
             items[i].quantity = Replay(ItemMovements(i), initialQuantity[i]))
    /\ [][\A p \in Procs :
             proc'[p] # proc[p] =>
                \A i \in DOMAIN items \ {proc[p].data.itemId} :
                   /\ items'[i] = items[i]
                   /\ SelectSeq(movements', LAMBDA m : m.itemId = i) = ItemMovements(i)]_vars

\* C18 witness: two successful createMovement calls on different items overlapped
\* (the call made first committed last), and each item holds its initial quantity
\* changed by its own movement only.
C18_Witness ==
    /\ Len(movements) = 2
    /\ movements[1].call = 2 /\ movements[2].call = 1
    /\ movements[1].itemId # movements[2].itemId
    /\ movements[1].type = "IN" /\ movements[1].quantity = 6
    /\ movements[2].type = "OUT" /\ movements[2].quantity = 6
    /\ results[1].kind = "success" /\ results[2].kind = "success"
    /\ items[movements[1].itemId].quantity = initialQuantity[movements[1].itemId] + 6
    /\ items[movements[2].itemId].quantity = initialQuantity[movements[2].itemId] - 6

\* The results a caller can get: success, or one of the failures.
Tagged == {"success"} \cup Failures

\* C19: the result of a call is never a thrown error, and every call of
\* createMovement and adjustInventory that has been made returns a result with
\* success = true or success = false, also when a storage call throws.
C19_TaggedResults ==
    /\ [](\A c \in Calls : results[c].kind \in {"-", "pending"} \cup Tagged)
    /\ \A c \in Calls : (results[c].kind = "pending") ~> (results[c].kind \in Tagged)

\* C19 witness: an adjustInventory call whose lookup threw and a call whose
\* transaction threw have both returned a failure result.
C19_Witness ==
    /\ results[1].kind = "failedAdjust"
    /\ results[1].failedAt = "adjustFind"
    /\ results[2].kind = "failed"
    /\ results[2].failedAt \in {"txCreate", "txUpdate", "txCommit"}

\* The first call of the chain of repetitions that call c belongs to.
RetryRoot(c) == IF requests[c].retryOf = 0 THEN c ELSE requests[c].retryOf

\* C20: of a createMovement call and its repetitions by the caller after
\* 'Failed to create movement', at most one has committed a movement.
C20_RetrySafety ==
    \A c \in Calls :
        requests[c].op = "createMovement" =>
           Cardinality({d \in Calls : RetryRoot(d) = c /\ HasMovement(d)}) <= 1

\* C21: a request to the adjust endpoint with body {quantity: d, reason} on an
\* existing item of quantity c, made as the only call and with no storage failure,
\* returns success and leaves the item's quantity at c + d.
C21_AdjustAppliesDelta ==
    ( /\ nextCall = 2
      /\ requests[1].op = "adjustRequest"
      /\ requests[1].type = "quantity"
      /\ requests[1].itemId \in DOMAIN items
      /\ results[1].kind # "pending"
      /\ results[1].failedAt = "-" )
    => /\ results[1].kind = "success"
       /\ items[requests[1].itemId].quantity
             = initialQuantity[requests[1].itemId] + requests[1].quantity


\* Handler p returns in this step from a createItem or an updateItem whose SKU
\* another stored item has at that moment.
ReturnsOnTakenSku(p) ==
    /\ proc[p].pc # "idle"
    /\ proc'[p].pc = "idle"
    /\ proc[p].body.sku # "-"
    /\ \/ proc[p].op = "createItem" /\ FindBySku(proc[p].body.sku)
       \/ /\ proc[p].op = "updateItem"
          /\ proc[p].data.itemId \in DOMAIN items
          /\ SkuTakenByOther(proc[p].data.itemId, proc[p].body.sku)

\* C22: SKU uniqueness. Under every interleaving of createItem and updateItem no
\* two items have the same SKU, and a createItem or an updateItem that would give
\* an item the SKU of another stored item returns 'Item with this SKU already
\* exists' and stores nothing.
C22_SkuUniqueAndReported ==
    [][ /\ \A i, j \in DOMAIN items' : i # j => items'[i].sku # items'[j].sku
        /\ \A p \in Procs :
              ReturnsOnTakenSku(p)
                  => /\ results'[proc[p].call].kind = "skuExists"
                     /\ items' = items ]_vars

\* Handler p returns in this step from a deleteCategory on a category that at
\* least one stored item references at that moment.
ReturnsOnReferencedCategory(p) ==
    /\ proc[p].op = "deleteCategory"
    /\ proc[p].pc # "idle"
    /\ proc'[p].pc = "idle"
    /\ CategoryExists(proc[p].body.categoryId)
    /\ CategoryReferenced(proc[p].body.categoryId)

\* C24: a category that items reference is not deleted. Under every interleaving
\* of createItem, updateItem and deleteCategory every item's categoryId names a
\* stored category, and a deleteCategory on a category that an item references
\* returns 'Cannot delete category with existing items' and deletes nothing.
C24_CategoryKeptWhileReferenced ==
    [][ /\ \A i \in DOMAIN items' : items'[i].categoryId \in DOMAIN categories'
        /\ \A p \in Procs :
              ReturnsOnReferencedCategory(p)
                  => /\ results'[proc[p].call].kind = "hasItems"
                     /\ categories' = categories ]_vars

\* Handler p returns in this step from a createCategory or an updateCategory whose
\* name another stored category has at that moment.
ReturnsOnTakenName(p) ==
    /\ proc[p].pc # "idle"
    /\ proc'[p].pc = "idle"
    /\ proc[p].body.name # "-"
    /\ \/ proc[p].op = "createCategory" /\ FindByName(proc[p].body.name)
       \/ /\ proc[p].op = "updateCategory"
          /\ CategoryExists(proc[p].body.categoryId)
          /\ NameTakenByOther(proc[p].body.categoryId, proc[p].body.name)

\* Handler p runs an updateCategory whose body carries the current name of the
\* category it updates.
KeepsOwnName(p) ==
    /\ proc[p].op = "updateCategory"
    /\ CategoryExists(proc[p].body.categoryId)
    /\ proc[p].body.name = categories[proc[p].body.categoryId]

\* C23: category names are unique. In every sequence of createCategory and
\* updateCategory calls no two categories share a name; a create or a rename to a
\* name that another category has returns 'Category with this name already
\* exists' and writes nothing; an updateCategory that keeps the category's own name
\* makes no name lookup and succeeds.
C23_CategoryNamesUnique ==
    [][ /\ \A c, d \in DOMAIN categories' : c # d => categories'[c] # categories'[d]
        /\ \A p \in Procs :
              ReturnsOnTakenName(p)
                  => /\ results'[proc[p].call].kind = "nameExists"
                     /\ categories' = categories
        /\ \A p \in Procs :
              KeepsOwnName(p)
                  => /\ proc'[p].pc # "ucName"
                     /\ proc'[p].pc = "idle" => results'[proc[p].call].kind = "success" ]_vars

\* A rename of "c1" to the name of "c2" was refused, and the update of "c1" with
\* its own name that followed succeeded.
C23_Witness ==
    /\ requests[1] = LoggedRequest("updateCategory", "c1", "Parts", 0, NoUser, 0)
    /\ results[1].kind = "nameExists"
    /\ requests[2] = LoggedRequest("updateCategory", "c1", "Tools", 0, NoUser, 0)
    /\ results[2].kind = "success"
    /\ categories["c1"] = "Tools"

\* C25: the order of the checks in createMovement: lookup, quantity validation,
\* sufficiency, transaction. A request that names no stored item returns 'Item not
\* found' whatever its quantity; a request on a stored item with quantity <= 0
\* returns the quantity validation error, an OUT included; 'Insufficient
\* inventory' is returned only for an OUT with a valid quantity on a stored item;
\* and a transaction is open only for a request that passed all three checks.
C25_OrderOfChecks ==
    /\ \A c \in Calls :
          results[c].kind \notin {"-", "pending"}
              => /\ requests[c].itemId \notin DOMAIN items => results[c].kind = "notFound"
                 /\ (requests[c].itemId \in DOMAIN items /\ requests[c].quantity <= 0)
                        => results[c].kind = "invalidQuantity"
                 /\ results[c].kind = "insufficient"
                        => /\ requests[c].type = "OUT"
                           /\ requests[c].quantity > 0
                           /\ requests[c].itemId \in DOMAIN items
    /\ \A p \in Procs :
          proc[p].pc \in {"txCreate", "txUpdate", "txCommit"}
              => /\ proc[p].item.found
                 /\ proc[p].data.quantity > 0
                 /\ ~InsufficientInventory(proc[p].data.type, proc[p].item.quantity,
                                           proc[p].data.quantity)

\* A request with quantity 0 for an unknown item returned 'Item not found', and an
\* OUT with quantity 0 on the stored item returned the validation error.
C25_Witness ==
    /\ requests[1].itemId \notin DOMAIN items
    /\ requests[1].quantity = 0
    /\ results[1].kind = "notFound"
    /\ requests[2] = LoggedRequest("createMovement", "i1", "OUT", 0, "u1", 0)
    /\ results[2].kind = "invalidQuantity"

RECURSIVE LedgerTotal(_, _, _)
\* The sum of the quantities of the rows of `rows` that have the type and, with a
\* filter, the item; 0 when there is none.
LedgerTotal(rows, type, itemId) ==
    IF rows = <<>> THEN 0
    ELSE (IF Head(rows).type = type /\ (itemId = NoFilter \/ Head(rows).itemId = itemId)
          THEN Head(rows).quantity ELSE 0)
         + LedgerTotal(Tail(rows), type, itemId)

\* Handler p moves in this step while it runs getMovementStats.
StatsStep(p) == proc[p].op = "getMovementStats" /\ proc'[p] # proc[p]

PageRecords(j, limit) ==
    LET window == BuildPagination(j, limit)
        rows == FindMany(window.skip, window.take)
    IN {rows[k] : k \in 1..Len(rows)}

\* C27: pagination arithmetic. A paginated query skips (page - 1) * limit records
\* and takes at most limit; it reports totalPages = ceil(total / limit), hasNext =
\* (page < totalPages) and hasPrev = (page > 1); and every one of the total records
\* is on exactly one of the pages 1..totalPages.
C27_Pagination ==
    \A p \in Procs :
        proc[p].pc = "listReturn"
            => LET l == proc[p].listing
                   info == proc[p].listing.pagination
                   total == Cardinality(DOMAIN items)
               IN
               /\ l.skip = (l.page - 1) * l.limit
               /\ l.take = l.limit
               /\ Len(l.data) <= l.limit
               /\ info.total = total
               /\ info.totalPages * l.limit >= total
               /\ info.totalPages >= 0
               /\ info.totalPages > 0 => (info.totalPages - 1) * l.limit < total
               /\ info.hasNext = (l.page < info.totalPages)
               /\ info.hasPrev = (l.page > 1)
               /\ \A i \in DOMAIN items :
                     Cardinality({j \in 1..info.totalPages : i \in PageRecords(j, l.limit)}) = 1

\* Page 2 of a catalog of five items with limit 2 is held: two records, three
\* pages, a page before and a page after.
C27_Witness ==
    \E p \in Procs :
        /\ proc[p].pc = "listReturn"
        /\ proc[p].listing.page = 2
        /\ proc[p].listing.limit = 2
        /\ Cardinality(DOMAIN items) = 5
        /\ proc[p].listing.data = <<"i3", "i4">>
        /\ proc[p].listing.pagination.totalPages = 3
        /\ proc[p].listing.pagination.hasNext
        /\ proc[p].listing.pagination.hasPrev

\* The statuses updateItem gives an item that is taken out of use.
Retired == {"INACTIVE", "DISCONTINUED"}

\* C28: a successful createMovement on an item whose stored status is INACTIVE or
\* DISCONTINUED overwrites the status: OUT_OF_STOCK when the new quantity is 0,
\* ACTIVE otherwise; no successful movement leaves the status INACTIVE or
\* DISCONTINUED.
C28_StatusOverwritten ==
    [][\A p \in Procs :
          (CommitStep(p) /\ results'[proc[p].call].kind = "success")
              => LET i == proc[p].data.itemId IN
                 /\ items'[i].status \notin Retired
                 /\ items[i].status \in Retired
                        => items'[i].status
                              = IF items'[i].quantity = 0 THEN "OUT_OF_STOCK" ELSE "ACTIVE"]_vars

\* The item was set to INACTIVE with quantity 6, and the issue of 6 that followed
\* succeeded and left it OUT_OF_STOCK.
C28_Witness ==
    /\ requests[1] = LoggedRequest("updateItem", "i1", "INACTIVE", 6, NoUser, 0)
    /\ results[1].kind = "success"
    /\ requests[2] = LoggedRequest("createMovement", "i1", "OUT", 6, "u1", 0)
    /\ results[2].kind = "success"
    /\ items["i1"].status = "OUT_OF_STOCK"

\* C29: no orphan movement. In every interleaving of deleteItem and createMovement
\* every committed movement names a stored item; a createMovement that returned
\* has either committed its movement together with its quantity update or
\* returned a failure and committed neither.
C29_NoOrphanMovement ==
    /\ [](\A k \in 1..Len(movements) : movements[k].itemId \in DOMAIN items)
    /\ [][\A p \in Procs :
            (proc[p].op = "createMovement" /\ proc[p].pc # "idle" /\ proc'[p].pc = "idle")
                => LET c == proc[p].call
                       inserted == \E k \in 1..Len(movements') : movements'[k].call = c
                   IN \/ inserted /\ c \in itemUpdates'
                      \/ /\ results'[c].kind \in Failures
                         /\ ~inserted
                         /\ c \notin itemUpdates'
                         /\ items' = items]_vars

\* deleteItem removed the item while a createMovement on it was between its lookup
\* and its insert; the delete has returned success and the ledger is empty.
C29_Witness ==
    \E p \in Procs :
        /\ proc[p].op = "createMovement"
        /\ proc[p].pc = "txCreate"
        /\ proc[p].data.itemId \notin DOMAIN items
        /\ \E d \in Calls : results[d].kind = "success"
        /\ movements = <<>>

\* C30: graceful shutdown. After SIGTERM or SIGINT the process eventually exits;
\* it exits with code 0 only after the HTTP server has closed and the database has
\* disconnected without error, and with code 1 when the disconnect failed or the
\* forced-shutdown timer fired first.
C30_GracefulShutdown ==
    /\ server.signalled ~> server.exited
    /\ []((server.exited /\ server.code = 0)
            => (server.http = "closed" /\ server.db = "disconnected"))
    /\ []((server.exited /\ (server.db = "disconnectFailed" \/ server.timer = "fired"))
            => server.code = 1)

====
